---- MODULE Spec2Model ----
(***************************************************************************)
(* Horizon planning of the gen4 planner                                    *)
(* (go/vt/vtgate/planbuilder/horizon_planning.go).                         *)
(*                                                                         *)
(* The logical plan is a heap of nodes (Go pointers are heap indices, so   *)
(* that two references to one operator see each other's mutations).  The   *)
(* rewriters are recursive operators that take the heap and return the     *)
(* mutated heap together with their Go results.  Expressions are records   *)
(* that carry their SQL text (str) and what the semantic table, the        *)
(* vschema and the eval engine answer for them (deps, typ, uniq, conv).    *)
(* Column names are unqualified and no table is a derived table, so the    *)
(* keyspace stripping and the derived-table rewriting of pushProjection    *)
(* leave every modelled expression as it is.                               *)
(***************************************************************************)
EXTENDS Integers, Sequences, FiniteSets, TLC

VARIABLES heap, root, input, query, horizon, pc, err, call

vars == <<heap, root, input, query, horizon, pc, err, call>>

----------------------------------------------------------------------------
(* Bounds of the model.                                                    *)

\* longest select list of a query
MaxSel == 2

\* number of direct pushProjection calls made on one tree
MaxPush == 2

----------------------------------------------------------------------------
(* Errors: a vtrpc code and a message.                                     *)

NoErr == [code |-> "OK", msg |-> ""]

Error(code, msg) == [code |-> code, msg |-> msg]

IsErr(e) == e.code # "OK"

ErrCrossShardLeftJoin ==
    Error("UNIMPLEMENTED", "unsupported: cross-shard left join and column expressions")

ErrConvertOther == Error("INVALID_ARGUMENT", "eval engine conversion failed")

ErrAmbiguous ==
    Error("UNIMPLEMENTED", "generating order by clause: ambiguous symbol reference")

----------------------------------------------------------------------------
(* Expressions.                                                            *)

\* a column reference; typ is the semantic table's type ("none": unknown),
\* uniq whether the vschema has a unique vindex on it
ColName(name, tbl, typ, uniq) ==
    [kind |-> "ColName", str |-> name, name |-> name, deps |-> {tbl},
     typ |-> typ, conv |-> "ok", fn |-> "", distinct |-> FALSE,
     args |-> <<>>, uniq |-> uniq]

Literal(txt) ==
    [kind |-> "Literal", str |-> txt, name |-> "", deps |-> {},
     typ |-> "num", conv |-> "ok", fn |-> "", distinct |-> FALSE,
     args |-> <<>>, uniq |-> FALSE]

NullVal ==
    [kind |-> "NullVal", str |-> "null", name |-> "", deps |-> {},
     typ |-> "none", conv |-> "ok", fn |-> "", distinct |-> FALSE,
     args |-> <<>>, uniq |-> FALSE]

\* a bind variable standing for a column of the left side of a join
Argument(name) ==
    [kind |-> "Argument", str |-> ":" \o name, name |-> "", deps |-> {},
     typ |-> "none", conv |-> "ok", fn |-> "", distinct |-> FALSE,
     args |-> <<>>, uniq |-> FALSE]

\* l op r; conv is the outcome of evalengine.Convert on it: "ok", "unimpl"
\* (code UNIMPLEMENTED) or "other" (any other code)
BinaryExpr(l, op, r, conv) ==
    [kind |-> "BinaryExpr", str |-> l.str \o op \o r.str, name |-> "",
     deps |-> l.deps \cup r.deps, typ |-> "none", conv |-> conv, fn |-> op,
     distinct |-> FALSE, args |-> <<l, r>>, uniq |-> FALSE]

\* fn(arg) or fn(distinct arg); the eval engine converts no function call
FuncExpr(fn, dist, arg) ==
    [kind |-> "FuncExpr",
     str |-> fn \o "(" \o (IF dist THEN "distinct " ELSE "") \o arg.str \o ")",
     name |-> "", deps |-> arg.deps, typ |-> "none", conv |-> "unimpl",
     fn |-> fn, distinct |-> dist, args |-> <<arg>>, uniq |-> FALSE]

AggregateNames == {"count", "sum", "min", "max"}

IsColName(e) == e.kind = "ColName"

IsNull(e) == e.kind = "NullVal"

IsAggregation(e) == e.kind = "FuncExpr" /\ e.fn \in AggregateNames

RECURSIVE ContainsAggregation(_)
ContainsAggregation(e) ==
    \/ IsAggregation(e)
    \/ \E i \in 1..Len(e.args) : ContainsAggregation(e.args[i])

EqualsExpr(a, b) == a.str = b.str

RecursiveDeps(e) == e.deps

IsSolvedBy(deps, ts) == deps \subseteq ts

exprHasUniqueVindex(e) == IsColName(e) /\ e.uniq

\* semTable.TypeFor and sqltypes.IsNumber
IsNumber(e) == e.typ = "num"

\* an aliased expression: as = "" when there is no alias
Aliased(e, as) == [expr |-> e, as |-> as]

weightStringFor(e) == FuncExpr("weight_string", FALSE, e)

IsWeightString(e) == e.kind = "FuncExpr" /\ e.fn = "weight_string"

----------------------------------------------------------------------------
(* Logical plan nodes.  left is the input / underlying / lhs / first       *)
(* source of a node with one child, 0 when there is none.                  *)

Node(kind) ==
    [kind |-> kind, left |-> 0, right |-> 0, opcode |-> "",
     tables |-> {}, singleShard |-> FALSE, isSel |-> TRUE,
     selectExprs |-> <<>>, groupBy |-> <<>>, sqlOrderBy |-> <<>>,
     having |-> <<>>, sqlDistinct |-> FALSE, fullSelect |-> FALSE,
     cols |-> <<>>, vars |-> <<>>,
     aggregates |-> <<>>, groupByKeys |-> <<>>, preProcess |-> FALSE,
     orderBy |-> <<>>, truncate |-> -1, predicate |-> <<>>]

RECURSIVE ContainsTables(_, _)
ContainsTables(h, id) ==
    IF id = 0 THEN {}
    ELSE IF h[id].kind = "route" THEN h[id].tables
    ELSE ContainsTables(h, h[id].left) \cup ContainsTables(h, h[id].right)

\* number of output columns of a plan
RECURSIVE Width(_, _)
Width(h, id) ==
    IF id = 0 THEN 0
    ELSE IF h[id].kind = "route" THEN Len(h[id].selectExprs)
    ELSE IF h[id].kind \in {"join", "hashJoin", "semiJoin", "simpleProjection"}
         THEN Len(h[id].cols)
    ELSE Width(h, h[id].left)

Route(tables, single) ==
    [Node("route") EXCEPT !.tables = tables, !.singleShard = single]

UnionRoute(tables) ==
    [Node("route") EXCEPT !.tables = tables, !.isSel = FALSE]

Join(kind, opcode, l, r) ==
    [Node(kind) EXCEPT !.left = l, !.right = r, !.opcode = opcode]

Wrap(kind, l) == [Node(kind) EXCEPT !.left = l]

Plan(h, r) == [h |-> h, root |-> r]

MinOf(S) == CHOOSE x \in S : \A y \in S : x <= y

----------------------------------------------------------------------------
(* pushProjection.                                                         *)

\* what pushProjection returns: the heap as mutated, (offset, added, err),
\* and the caller's expression as the call left it (a join rewrites it)
PushRes(h, offset, added, e, expr) ==
    [h |-> h, offset |-> offset, added |-> added, err |-> e, expr |-> expr]

\* checkMatch without its two cases for an existing item that has no alias
checkMatchAliasOnly(expr, selectExpr) ==
    /\ RecursiveDeps(selectExpr.expr) = RecursiveDeps(expr.expr)
    /\ selectExpr.as # ""
    /\ IsColName(expr.expr)
    /\ selectExpr.as = expr.expr.name

checkMatch(expr, selectExpr) ==
    /\ RecursiveDeps(selectExpr.expr) = RecursiveDeps(expr.expr)
    /\ IF selectExpr.as = ""
       THEN \/ /\ IsColName(selectExpr.expr)
               /\ IsColName(expr.expr)
               /\ expr.expr.name = selectExpr.expr.name
            \/ EqualsExpr(selectExpr.expr, expr.expr)
       ELSE IsColName(expr.expr) /\ selectExpr.as = expr.expr.name

checkIfAlreadyExists(expr, selectExprs) ==
    LET m == {i \in 1..Len(selectExprs) : checkMatch(expr, selectExprs[i])}
    IN  IF m = {} THEN -1 ELSE MinOf(m) - 1

\* convertCheck that lets an unconvertible expression through on either side
convertCheckIgnoringInner(expr, inner) ==
    IF IsColName(expr.expr) \/ expr.expr.conv = "ok" THEN NoErr
    ELSE IF expr.expr.conv # "unimpl" THEN ErrConvertOther
    ELSE NoErr

\* the outcome of the eval-engine pre-validation of the route case
convertCheck(expr, inner) ==
    IF IsColName(expr.expr) \/ expr.expr.conv = "ok" THEN NoErr
    ELSE IF expr.expr.conv # "unimpl" THEN ErrConvertOther
    ELSE IF ~inner THEN ErrCrossShardLeftJoin
    ELSE NoErr

pushProjectionRoute(h, id, expr, inner, reuseCol) ==
    LET node == h[id]
        cerr == convertCheck(expr, inner)
        i    == IF reuseCol THEN checkIfAlreadyExists(expr, node.selectExprs) ELSE -1
    IN  IF IsErr(cerr) THEN PushRes(h, 0, FALSE, cerr, expr.expr)
        ELSE IF i # -1 THEN PushRes(h, i, FALSE, NoErr, expr.expr)
        ELSE IF ~node.isSel
        THEN PushRes(h, 0, FALSE,
                     Error("INVALID_ARGUMENT", "Unknown column in 'order clause'"),
                     expr.expr)
        ELSE PushRes([h EXCEPT ![id].selectExprs = Append(@, expr)],
                     Len(node.selectExprs), TRUE, NoErr, expr.expr)

\* the reuse search of a join, hash join or semi join and the final append
joinColumn(h, id, column, appended, reuseCol, expr) ==
    LET m == {i \in 1..Len(h[id].cols) : h[id].cols[i] = column}
    IN  IF reuseCol /\ ~appended /\ m # {}
        THEN PushRes(h, MinOf(m) - 1, FALSE, NoErr, expr)
        ELSE PushRes([h EXCEPT ![id].cols = Append(@, column)],
                     Len(h[id].cols), TRUE, NoErr, expr)

\* the provenance a join records for a column of its left / right child
leftColumn(offset) == -(offset + 1)

\* rightColumn without the shift that keeps 0 out of Cols
rightColumnNoShift(offset) == offset

rightColumn(offset) == offset + 1

passDownReuseCol(expr, reuseCol) == IF ~reuseCol THEN expr.as = "" ELSE reuseCol

\* the columns of e that the left side solves, in order
RECURSIVE lhsColumns(_, _)
lhsColumns(e, lhsSolves) ==
    IF IsColName(e)
    THEN IF IsSolvedBy(e.deps, lhsSolves) THEN <<e>> ELSE <<>>
    ELSE IF Len(e.args) = 0 THEN <<>>
    ELSE IF Len(e.args) = 1 THEN lhsColumns(e.args[1], lhsSolves)
    ELSE lhsColumns(e.args[1], lhsSolves) \o lhsColumns(e.args[2], lhsSolves)

\* e with each column of the left side replaced by its bind variable
RECURSIVE rewriteLHS(_, _)
rewriteLHS(e, lhsSolves) ==
    IF IsColName(e)
    THEN IF IsSolvedBy(e.deps, lhsSolves) THEN Argument(e.name) ELSE e
    ELSE IF e.kind = "BinaryExpr"
    THEN BinaryExpr(rewriteLHS(e.args[1], lhsSolves), e.fn,
                    rewriteLHS(e.args[2], lhsSolves), e.conv)
    ELSE IF e.kind = "FuncExpr"
    THEN FuncExpr(e.fn, e.distinct, rewriteLHS(e.args[1], lhsSolves))
    ELSE e

breakExpressionInLHSandRHS(e, lhsSolves) ==
    LET cols == lhsColumns(e, lhsSolves)
    IN  [bvName |-> [i \in 1..Len(cols) |-> cols[i].name],
         cols |-> cols,
         rewrittenExpr |-> rewriteLHS(e, lhsSolves)]

\* node.Vars[name] = off
SetVar(vs, name, off) ==
    IF \E i \in 1..Len(vs) : vs[i].name = name
    THEN [i \in 1..Len(vs) |->
            IF vs[i].name = name THEN [name |-> name, off |-> off] ELSE vs[i]]
    ELSE Append(vs, [name |-> name, off |-> off])

RECURSIVE pushProjection(_, _, _, _, _, _)

\* the loop of the join case that pushes the left side's columns
RECURSIVE pushLHSColumns(_, _, _, _, _)
pushLHSColumns(h, id, brk, inner, i) ==
    IF i > Len(brk.cols) THEN [h |-> h, err |-> NoErr]
    ELSE LET r == pushProjection(h, h[id].left, Aliased(brk.cols[i], ""),
                                 inner, TRUE, FALSE)
         IN  IF IsErr(r.err) THEN [h |-> r.h, err |-> r.err]
             ELSE pushLHSColumns(
                      [r.h EXCEPT ![id].vars = SetVar(@, brk.bvName[i], r.offset)],
                      id, brk, inner, i + 1)

pushProjectionHashJoin(h, id, expr, inner, reuseCol, hasAggregation) ==
    LET node      == h[id]
        lhsSolves == ContainsTables(h, node.left)
        rhsSolves == ContainsTables(h, node.right)
        deps      == RecursiveDeps(expr.expr)
        pass      == passDownReuseCol(expr, reuseCol)
    IN  IF IsSolvedBy(deps, lhsSolves)
        THEN LET r == pushProjection(h, node.left, expr, inner, pass, hasAggregation)
             IN  IF IsErr(r.err) THEN PushRes(r.h, 0, FALSE, r.err, r.expr)
                 ELSE joinColumn(r.h, id, leftColumn(r.offset), r.added, reuseCol, r.expr)
        ELSE IF IsSolvedBy(deps, rhsSolves)
        THEN LET r == pushProjection(h, node.right, expr,
                                     inner /\ node.opcode # "LeftJoin",
                                     pass, hasAggregation)
             IN  IF IsErr(r.err) THEN PushRes(r.h, 0, FALSE, r.err, r.expr)
                 ELSE joinColumn(r.h, id, rightColumn(r.offset), r.added, reuseCol, r.expr)
        ELSE IF hasAggregation
        THEN PushRes(h, 0, FALSE,
                     Error("UNIMPLEMENTED", "unsupported: cross-shard query with aggregates"),
                     expr.expr)
        ELSE PushRes(h, 0, FALSE,
                     Error("UNIMPLEMENTED",
                           "unsupported: hash join with projection from both sides of the join"),
                     expr.expr)

pushProjectionJoin(h, id, expr, inner, reuseCol, hasAggregation) ==
    LET node      == h[id]
        lhsSolves == ContainsTables(h, node.left)
        rhsSolves == ContainsTables(h, node.right)
        deps      == RecursiveDeps(expr.expr)
        pass      == passDownReuseCol(expr, reuseCol)
    IN  IF IsSolvedBy(deps, lhsSolves)
        THEN LET r == pushProjection(h, node.left, expr, inner, pass, hasAggregation)
             IN  IF IsErr(r.err) THEN PushRes(r.h, 0, FALSE, r.err, r.expr)
                 ELSE joinColumn(r.h, id, leftColumn(r.offset), r.added, reuseCol, r.expr)
        ELSE IF IsSolvedBy(deps, rhsSolves)
        THEN LET r == pushProjection(h, node.right, expr,
                                     inner /\ node.opcode # "LeftJoin",
                                     pass, hasAggregation)
             IN  IF IsErr(r.err) THEN PushRes(r.h, 0, FALSE, r.err, r.expr)
                 ELSE joinColumn(r.h, id, rightColumn(r.offset), r.added, reuseCol, r.expr)
        ELSE IF hasAggregation
        THEN PushRes(h, 0, FALSE,
                     Error("UNIMPLEMENTED", "unsupported: cross-shard query with aggregates"),
                     expr.expr)
        ELSE LET brk == breakExpressionInLHSandRHS(expr.expr, lhsSolves)
                 l   == pushLHSColumns(h, id, brk, inner, 1)
                 r   == pushProjection(l.h, node.right,
                                       Aliased(brk.rewrittenExpr, expr.as),
                                       inner /\ node.opcode # "LeftJoin",
                                       pass, FALSE)
             IN  IF IsErr(l.err) THEN PushRes(l.h, 0, FALSE, l.err, expr.expr)
                 ELSE IF IsErr(r.err) THEN PushRes(r.h, 0, FALSE, r.err, r.expr)
                 ELSE joinColumn(r.h, id, rightColumn(r.offset), r.added, reuseCol, r.expr)

pushProjectionSemiJoin(h, id, expr, inner, reuseCol, hasAggregation) ==
    LET r == pushProjection(h, h[id].left, expr, inner,
                            passDownReuseCol(expr, reuseCol), hasAggregation)
    IN  IF IsErr(r.err) THEN PushRes(r.h, 0, FALSE, r.err, r.expr)
        ELSE joinColumn(r.h, id, leftColumn(r.offset), r.added, reuseCol, r.expr)

\* the simple-projection case that looks for the offset whatever reuseCol is
pushProjectionSimpleProjectionAlwaysReuse(h, id, expr, inner, reuseCol, hasAggregation) ==
    LET r == pushProjection(h, h[id].left, expr, inner, TRUE, hasAggregation)
        m == {i \in 1..Len(r.h[id].cols) : r.h[id].cols[i] = r.offset}
    IN  IF IsErr(r.err) THEN PushRes(r.h, 0, FALSE, r.err, r.expr)
        ELSE IF m # {} THEN PushRes(r.h, MinOf(m) - 1, FALSE, NoErr, r.expr)
        ELSE PushRes([r.h EXCEPT ![id].cols = Append(@, r.offset)],
                     Len(r.h[id].cols), TRUE, NoErr, r.expr)

pushProjectionSimpleProjection(h, id, expr, inner, reuseCol, hasAggregation) ==
    LET r == pushProjection(h, h[id].left, expr, inner, TRUE, hasAggregation)
        m == {i \in 1..Len(r.h[id].cols) : r.h[id].cols[i] = r.offset}
    IN  IF IsErr(r.err) THEN PushRes(r.h, 0, FALSE, r.err, r.expr)
        ELSE IF reuseCol /\ m # {} THEN PushRes(r.h, MinOf(m) - 1, FALSE, NoErr, r.expr)
        ELSE PushRes([r.h EXCEPT ![id].cols = Append(@, r.offset)],
                     Len(r.h[id].cols), TRUE, NoErr, r.expr)

pushProjectionOrderedAggregate(h, id, expr) ==
    LET aggrs == h[id].aggregates
        m == {i \in 1..Len(aggrs) :
                \/ EqualsExpr(aggrs[i].expr, expr.expr)
                \/ IsColName(expr.expr) /\ expr.expr.name = aggrs[i].alias}
    IN  IF m # {} THEN PushRes(h, aggrs[MinOf(m)].col, FALSE, NoErr, expr.expr)
        ELSE PushRes(h, 0, FALSE,
                     Error("INTERNAL", "cannot push projections in ordered aggregates"),
                     expr.expr)

pushProjectionConcatenate(h, id, expr, inner, reuseCol, hasAggregation) ==
    LET r == pushProjection(h, h[id].left, expr, inner, reuseCol, hasAggregation)
    IN  IF hasAggregation
        THEN PushRes(h, 0, FALSE,
                     Error("UNIMPLEMENTED", "unsupported: aggregation on unions"),
                     expr.expr)
        ELSE IF IsErr(r.err) THEN PushRes(r.h, 0, FALSE, r.err, r.expr)
        ELSE IF r.added
        THEN PushRes(r.h, 0, FALSE,
                     Error("INTERNAL",
                           "pushing projection on concatenate should reference an existing column"),
                     r.expr)
        ELSE PushRes(r.h, r.offset, FALSE, NoErr, r.expr)

pushProjection(h, id, expr, inner, reuseCol, hasAggregation) ==
    LET kind == h[id].kind
    IN  CASE kind = "route" -> pushProjectionRoute(h, id, expr, inner, reuseCol)
          [] kind = "hashJoin" ->
                pushProjectionHashJoin(h, id, expr, inner, reuseCol, hasAggregation)
          [] kind = "join" ->
                pushProjectionJoin(h, id, expr, inner, reuseCol, hasAggregation)
          [] kind \in {"pulloutSubquery", "limit", "distinct"} ->
                pushProjection(h, h[id].left, expr, inner, reuseCol, hasAggregation)
          [] kind = "simpleProjection" ->
                pushProjectionSimpleProjection(h, id, expr, inner, reuseCol, hasAggregation)
          [] kind = "orderedAggregate" -> pushProjectionOrderedAggregate(h, id, expr)
          [] kind = "semiJoin" ->
                pushProjectionSemiJoin(h, id, expr, inner, reuseCol, hasAggregation)
          [] kind = "concatenate" ->
                pushProjectionConcatenate(h, id, expr, inner, reuseCol, hasAggregation)
          [] OTHER ->
                PushRes(h, 0, FALSE,
                        Error("UNIMPLEMENTED", "[BUG] push projection does not yet support"),
                        expr.expr)

----------------------------------------------------------------------------
(* The horizon-planning record.  everTruncate and truncateReset are        *)
(* history fields: whether needsTruncation was ever true, and whether a    *)
(* write ever took it from true to false.  keyOffsets is a history field   *)
(* too: the expression offsets wrapAndPushExpr returned to addDistinct,    *)
(* which the code drops.                                                   *)

setNeedsTruncation(hp, v) ==
    [hp EXCEPT !.needsTruncation = v,
               !.everTruncate = @ \/ v,
               !.truncateReset = @ \/ (hp.needsTruncation /\ ~v)]

\* haveToTruncate as a plain assignment of its argument
haveToTruncateAssign(hp, v) == setNeedsTruncation(hp, v)

haveToTruncate(hp, v) == setNeedsTruncation(hp, hp.needsTruncation \/ v)

----------------------------------------------------------------------------
(* wrapAndPushExpr and the group-by planner.                               *)

WrapRes(h, offset, wsOffset, added, e) ==
    [h |-> h, offset |-> offset, wsOffset |-> wsOffset, added |-> added, err |-> e]

UnaryExpr(op, e) ==
    [kind |-> "UnaryExpr", str |-> op \o e.str, name |-> "", deps |-> e.deps,
     typ |-> e.typ, conv |-> "ok", fn |-> op, distinct |-> FALSE,
     args |-> <<e>>, uniq |-> FALSE]

\* the column whose type decides whether a weight string is needed: expr
\* itself, or the column a unary expression wraps
weightStringColumn(expr) ==
    IF IsColName(expr) THEN <<expr>>
    ELSE IF expr.kind = "UnaryExpr" /\ IsColName(expr.args[1]) THEN <<expr.args[1]>>
    ELSE <<>>

\* wsNeeded: the type looked up is that of expr
wsNeeded(expr, weightStrExpr) == ~IsNumber(weightStringColumn(expr)[1])

\* weightStrExpr is <<>> for nil, <<e>> otherwise
wrapAndPushExpr(h, expr, weightStrExpr, plan) ==
    LET weightString(r, w) ==
            IF IsErr(w.err) THEN WrapRes(w.h, 0, 0, FALSE, w.err)
            ELSE WrapRes(w.h, r.offset, w.offset, r.added \/ w.added, NoErr)
        pushed(r) ==
            IF IsErr(r.err) THEN WrapRes(r.h, 0, 0, FALSE, r.err)
            ELSE IF weightStrExpr = <<>> THEN WrapRes(r.h, r.offset, -1, r.added, NoErr)
            ELSE IF weightStringColumn(expr) = <<>>
            THEN WrapRes(r.h, 0, 0, FALSE,
                         Error("UNIMPLEMENTED",
                               "unsupported: in scatter query: complex order by expression"))
            ELSE IF ~wsNeeded(expr, weightStrExpr[1])
            THEN WrapRes(r.h, r.offset, -1, r.added, NoErr)
            ELSE weightString(r, pushProjection(
                                     r.h, plan,
                                     Aliased(weightStringFor(weightStrExpr[1]), ""),
                                     TRUE, TRUE, FALSE))
    IN  pushed(pushProjection(h, plan, Aliased(expr, ""), TRUE, TRUE, FALSE))

GroupByParams(keyCol, wsCol, expr) ==
    [keyCol |-> keyCol, weightStringCol |-> wsCol, expr |-> expr]

GroupRes(h, added, e) == [h |-> h, added |-> added, err |-> e]

planGroupByRoute(h, id, groupExpr, wsAdded) ==
    [h EXCEPT ![id].groupBy =
        IF wsAdded
        THEN Append(Append(@, groupExpr.inner), weightStringFor(groupExpr.weightStrExpr))
        ELSE Append(@, groupExpr.inner)]

RECURSIVE planGroupByGen4(_, _, _, _)
planGroupByGen4(h, groupExpr, plan, wsAdded) ==
    LET node == h[plan]
        kind == node.kind
        keyed(wo) ==
            IF groupExpr.distinctAggrIndex = 0
            THEN [wo.h EXCEPT ![plan].groupByKeys =
                    Append(@, GroupByParams(wo.offset, wo.wsOffset,
                                            groupExpr.weightStrExpr))]
            ELSE IF wo.wsOffset # -1
            THEN [wo.h EXCEPT
                    ![plan].aggregates[groupExpr.distinctAggrIndex].wAssigned = TRUE,
                    ![plan].aggregates[groupExpr.distinctAggrIndex].wCol = wo.wsOffset]
            ELSE wo.h
        recursed(wo, rec) ==
            IF IsErr(rec.err) THEN GroupRes(rec.h, FALSE, rec.err)
            ELSE GroupRes(rec.h, wo.added \/ rec.added, NoErr)
        aggregated(wo) ==
            IF IsErr(wo.err) THEN GroupRes(wo.h, FALSE, wo.err)
            ELSE recursed(wo, planGroupByGen4(keyed(wo), groupExpr, node.left,
                                              wo.wsOffset # -1))
        joined(wj) == GroupRes(wj.h, wj.added, wj.err)
    IN  CASE kind = "route" ->
                GroupRes(planGroupByRoute(h, plan, groupExpr, wsAdded), FALSE, NoErr)
          [] kind \in {"join", "hashJoin"} ->
                joined(wrapAndPushExpr(h, groupExpr.inner,
                                       <<groupExpr.weightStrExpr>>, plan))
          [] kind = "orderedAggregate" ->
                aggregated(wrapAndPushExpr(h, groupExpr.inner,
                                           <<groupExpr.weightStrExpr>>, node.left))
          [] kind = "pulloutSubquery" ->
                planGroupByGen4(h, groupExpr, node.left, wsAdded)
          [] kind = "semiJoin" ->
                GroupRes(h, FALSE,
                         Error("UNIMPLEMENTED",
                               "unsupported: group by in a query having a correlated subquery"))
          [] OTHER ->
                GroupRes(h, FALSE, Error("UNIMPLEMENTED", "unsupported: group by on"))

----------------------------------------------------------------------------
(* The order-by planner.                                                   *)

\* an order: the inner order's expression and direction, and the
\* expression the weight string is taken of
OrderBy(inner, weightStrExpr, desc) ==
    [inner |-> inner, weightStrExpr |-> weightStrExpr, desc |-> desc]

OrderByParams(col, wsCol, desc) ==
    [col |-> col, weightStringCol |-> wsCol, desc |-> desc]

isSpecialOrderBy(o) ==
    \/ IsNull(o.inner)
    \/ o.inner.kind = "FuncExpr" /\ o.inner.fn = "rand"

checkOrderExprCanBePlannedInScatter(h, plan, order, hasStar) ==
    IF ~hasStar THEN NoErr
    ELSE IF \E i \in 1..Len(h[plan].selectExprs) :
               EqualsExpr(h[plan].selectExprs[i].expr, order.inner)
    THEN NoErr
    ELSE Error("UNIMPLEMENTED",
               "unsupported: in scatter query: order by must reference a column in the select list")

RECURSIVE planOrderByForRouteLoop(_, _, _, _, _)
planOrderByForRouteLoop(h, orderExprs, plan, hasStar, i) ==
    IF i > Len(orderExprs) THEN [h |-> h, err |-> NoErr]
    ELSE LET order == orderExprs[i]
             cerr  == checkOrderExprCanBePlannedInScatter(h, plan, order, hasStar)
             h1    == [h EXCEPT ![plan].sqlOrderBy = Append(@, order.inner)]
             pushed(w) ==
                 IF IsErr(w.err) THEN [h |-> w.h, err |-> w.err]
                 ELSE planOrderByForRouteLoop(
                          [w.h EXCEPT ![plan].orderBy =
                              Append(@, OrderByParams(w.offset, w.wsOffset, order.desc))],
                          orderExprs, plan, hasStar, i + 1)
         IN  IF IsErr(cerr) THEN [h |-> h, err |-> cerr]
             ELSE IF isSpecialOrderBy(order)
             THEN planOrderByForRouteLoop(h1, orderExprs, plan, hasStar, i + 1)
             ELSE pushed(wrapAndPushExpr(h1, order.inner, <<order.weightStrExpr>>, plan))

planOrderByForRoute(h, orderExprs, plan, hasStar) ==
    LET origColCount == Len(h[plan].selectExprs)
        planned(r) ==
            [h |-> r.h, err |-> r.err,
             truncate |-> (~IsErr(r.err) /\ origColCount # Len(r.h[plan].selectExprs))]
    IN  planned(planOrderByForRouteLoop(h, orderExprs, plan, hasStar, 1))

orderExprsDependsOnTableSet(orderExprs, ts) ==
    \A i \in 1..Len(orderExprs) : IsSolvedBy(RecursiveDeps(orderExprs[i].inner), ts)

PlanRes(h, hp, plan, e) == [h |-> h, hp |-> hp, plan |-> plan, err |-> e]

RECURSIVE createMemorySortLoop(_, _, _, _, _, _, _)
createMemorySortLoop(h, hp, ms, plan, orderExprs, useWeightStr, i) ==
    IF i > Len(orderExprs) THEN PlanRes(h, hp, ms, NoErr)
    ELSE LET order == orderExprs[i]
             pushed(w) ==
                 IF IsErr(w.err) THEN PlanRes(w.h, hp, 0, w.err)
                 ELSE createMemorySortLoop(
                          [w.h EXCEPT ![ms].orderBy =
                              Append(@, OrderByParams(w.offset, w.wsOffset, order.desc))],
                          haveToTruncate(hp, w.added), ms, plan, orderExprs,
                          useWeightStr, i + 1)
         IN  pushed(wrapAndPushExpr(
                        h, order.inner,
                        IF useWeightStr THEN <<order.weightStrExpr>> ELSE <<>>, plan))

createMemorySortPlan(h, hp, plan, orderExprs, useWeightStr) ==
    createMemorySortLoop(Append(h, Wrap("memorySort", plan)), hp, Len(h) + 1,
                         plan, orderExprs, useWeightStr, 1)

\* findExprInOrderedAggr that looks at the aggregates only
findExprInAggregatesOnly(node, order) ==
    LET as == {i \in 1..Len(node.aggregates) :
                  EqualsExpr(order.weightStrExpr, node.aggregates[i].expr)}
    IN  IF as # {}
        THEN [keyCol |-> node.aggregates[MinOf(as)].col, weightStringCol |-> -1,
              index |-> MinOf(as) - 1, found |-> TRUE]
        ELSE [keyCol |-> 0, weightStringCol |-> 0, index |-> 0, found |-> FALSE]

\* (keyCol, weightStringCol, index, found) of an order in an ordered aggregate
findExprInOrderedAggr(node, order) ==
    LET ks == {i \in 1..Len(node.groupByKeys) :
                  EqualsExpr(order.weightStrExpr, node.groupByKeys[i].expr)}
        as == {i \in 1..Len(node.aggregates) :
                  EqualsExpr(order.weightStrExpr, node.aggregates[i].expr)}
    IN  IF ks # {}
        THEN [keyCol |-> node.groupByKeys[MinOf(ks)].keyCol,
              weightStringCol |-> node.groupByKeys[MinOf(ks)].weightStringCol,
              index |-> MinOf(ks) - 1, found |-> TRUE]
        ELSE IF as # {}
        THEN [keyCol |-> node.aggregates[MinOf(as)].col, weightStringCol |-> -1,
              index |-> MinOf(as) - 1, found |-> TRUE]
        ELSE [keyCol |-> 0, weightStringCol |-> 0, index |-> 0, found |-> FALSE]

RECURSIVE createMemorySortOnAggregationLoop(_, _, _, _, _)
createMemorySortOnAggregationLoop(h, ms, plan, orderExprs, i) ==
    IF i > Len(orderExprs) THEN [h |-> h, plan |-> ms, err |-> NoErr]
    ELSE LET f == findExprInOrderedAggr(h[plan], orderExprs[i])
         IN  IF ~f.found
             THEN [h |-> h, plan |-> 0,
                   err |-> Error("INTERNAL",
                                 "expected to find the order by expression in orderedAggregate")]
             ELSE createMemorySortOnAggregationLoop(
                      [h EXCEPT ![ms].orderBy =
                          Append(@, OrderByParams(f.keyCol, f.weightStringCol,
                                                  orderExprs[i].desc))],
                      ms, plan, orderExprs, i + 1)

createMemorySortPlanOnAggregation(h, plan, orderExprs) ==
    createMemorySortOnAggregationLoop(Append(h, Wrap("memorySort", plan)),
                                      Len(h) + 1, plan, orderExprs, 1)

RECURSIVE planOrderBy(_, _, _, _)

planOrderByForHashJoin(h, hp, orderExprs, plan) ==
    LET sorted(r) ==
            IF IsErr(r.err) THEN PlanRes(r.h, r.hp, 0, r.err)
            ELSE PlanRes([r.h EXCEPT ![plan].right = r.plan], r.hp, plan, NoErr)
    IN  IF \/ Len(orderExprs) = 1 /\ isSpecialOrderBy(orderExprs[1])
           \/ orderExprsDependsOnTableSet(orderExprs, ContainsTables(h, h[plan].right))
        THEN sorted(planOrderBy(h, hp, orderExprs, h[plan].right))
        ELSE createMemorySortPlan(h, hp, plan, orderExprs, TRUE)

\* planOrderByForJoin that pushes a special order into the left side only
planOrderByForJoinLeftOnly(h, hp, orderExprs, plan) ==
    LET sorted(l) ==
            IF IsErr(l.err) THEN PlanRes(l.h, l.hp, 0, l.err)
            ELSE PlanRes([l.h EXCEPT ![plan].left = l.plan], l.hp, plan, NoErr)
    IN  IF \/ Len(orderExprs) = 1 /\ isSpecialOrderBy(orderExprs[1])
           \/ orderExprsDependsOnTableSet(orderExprs, ContainsTables(h, h[plan].left))
        THEN sorted(planOrderBy(h, hp, orderExprs, h[plan].left))
        ELSE createMemorySortPlan(h, hp, plan, orderExprs, TRUE)

planOrderByForJoin(h, hp, orderExprs, plan) ==
    LET sortedBoth(l, r) ==
            IF IsErr(r.err) THEN PlanRes(r.h, r.hp, 0, r.err)
            ELSE PlanRes([r.h EXCEPT ![plan].left = l.plan, ![plan].right = r.plan],
                         r.hp, plan, NoErr)
        sortedLeft(l) ==
            IF IsErr(l.err) THEN PlanRes(l.h, l.hp, 0, l.err)
            ELSE sortedBoth(l, planOrderBy(l.h, l.hp, orderExprs, h[plan].right))
        sorted(l) ==
            IF IsErr(l.err) THEN PlanRes(l.h, l.hp, 0, l.err)
            ELSE PlanRes([l.h EXCEPT ![plan].left = l.plan], l.hp, plan, NoErr)
    IN  IF Len(orderExprs) = 1 /\ isSpecialOrderBy(orderExprs[1])
        THEN sortedLeft(planOrderBy(h, hp, orderExprs, h[plan].left))
        ELSE IF orderExprsDependsOnTableSet(orderExprs, ContainsTables(h, h[plan].left))
        THEN sorted(planOrderBy(h, hp, orderExprs, h[plan].left))
        ELSE createMemorySortPlan(h, hp, plan, orderExprs, TRUE)

NotNullOrder(o) == ~IsNull(o.inner)

planOrderByOrderedAggregate(h, hp, orderExprs, plan) ==
    LET withoutNils == SelectSeq(orderExprs, NotNullOrder)
        sortedAbove(ms) == PlanRes(ms.h, hp, ms.plan, ms.err)
        sortedBelow(r) ==
            IF IsErr(r.err) THEN PlanRes(r.h, r.hp, 0, r.err)
            ELSE PlanRes([r.h EXCEPT ![plan].left = r.plan], r.hp, plan, NoErr)
    IN  IF \E i \in 1..Len(withoutNils) : ContainsAggregation(withoutNils[i].weightStrExpr)
        THEN sortedAbove(createMemorySortPlanOnAggregation(h, plan, withoutNils))
        ELSE sortedBelow(planOrderBy(h, hp, withoutNils, h[plan].left))

planOrderBy(h, hp, orderExprs, plan) ==
    LET kind == h[plan].kind
        routed(rt) ==
            IF IsErr(rt.err) THEN PlanRes(rt.h, hp, 0, rt.err)
            ELSE PlanRes(rt.h, haveToTruncate(hp, rt.truncate), plan, NoErr)
        sorted(r) ==
            IF IsErr(r.err) THEN PlanRes(r.h, r.hp, 0, r.err)
            ELSE PlanRes([r.h EXCEPT ![plan].left = r.plan], r.hp, plan, NoErr)
    IN  CASE kind = "route" ->
                routed(planOrderByForRoute(h, orderExprs, plan, hp.qp.hasStar))
          [] kind = "join" -> planOrderByForJoin(h, hp, orderExprs, plan)
          [] kind = "hashJoin" -> planOrderByForHashJoin(h, hp, orderExprs, plan)
          [] kind = "orderedAggregate" ->
                planOrderByOrderedAggregate(h, hp, orderExprs, plan)
          [] kind = "memorySort" -> PlanRes(h, hp, plan, NoErr)
          [] kind \in {"simpleProjection", "vindexFunc"} ->
                createMemorySortPlan(h, hp, plan, orderExprs, kind = "simpleProjection")
          [] kind \in {"limit", "semiJoin", "filter", "pulloutSubquery"} ->
                sorted(planOrderBy(h, hp, orderExprs, h[plan].left))
          [] OTHER ->
                PlanRes(h, hp, 0, Error("UNIMPLEMENTED", "ordering on complex query"))

----------------------------------------------------------------------------
(* The HAVING pusher.                                                      *)

newFilter(h, plan, expr) ==
    [h |-> Append(h, [Wrap("filter", plan) EXCEPT !.predicate = <<expr>>]),
     plan |-> Len(h) + 1, err |-> NoErr]

RECURSIVE pushHaving(_, _, _)
pushHaving(h, expr, plan) ==
    LET kind == h[plan].kind
    IN  CASE kind = "route" ->
                [h |-> [h EXCEPT ![plan].having = Append(@, expr)],
                 plan |-> plan, err |-> NoErr]
          [] kind = "pulloutSubquery" -> pushHaving(h, expr, h[plan].left)
          [] kind = "simpleProjection" ->
                [h |-> h, plan |-> 0,
                 err |-> Error("UNIMPLEMENTED",
                               "unsupported: filtering on results of cross-shard derived table")]
          [] kind = "orderedAggregate" -> newFilter(h, plan, expr)
          [] OTHER ->
                [h |-> h, plan |-> 0,
                 err |-> Error("INTERNAL", "[BUG] unreachable filtering")]

planHaving(h, sel, plan) ==
    IF sel.having = <<>> THEN [h |-> h, plan |-> plan, err |-> NoErr]
    ELSE pushHaving(h, sel.having[1], plan)

----------------------------------------------------------------------------
(* The aggregation planner.                                                *)

isJoin(h, plan) == h[plan].kind \in {"join", "hashJoin"}

hasUniqueVindex(groupByExprs) ==
    \E i \in 1..Len(groupByExprs) : exprHasUniqueVindex(groupByExprs[i].weightStrExpr)

SupportedAggregates == {"count", "sum", "min", "max"}

GroupBy(inner, weightStrExpr, distinctAggrIndex) ==
    [inner |-> inner, weightStrExpr |-> weightStrExpr,
     distinctAggrIndex |-> distinctAggrIndex]

AggregateParams(opcode, col, alias, expr) ==
    [opcode |-> opcode, col |-> col, alias |-> alias, expr |-> expr,
     wAssigned |-> FALSE, wCol |-> 0]

needDistinctHandling(h, funcExpr, opcode, inputPlan) ==
    IF ~funcExpr.distinct THEN FALSE
    ELSE IF opcode \notin {"count", "sum"} THEN FALSE
    ELSE IF h[inputPlan].kind # "route" THEN TRUE
    ELSE ~exprHasUniqueVindex(funcExpr.args[1])

distinctOpcode(opcode) ==
    CASE opcode = "count" -> "count_distinct"
      [] opcode = "sum" -> "sum_distinct"
      [] OTHER -> opcode

\* the distinct-aggregate index counted from 0
distinctAggrIndexFromZero(aggregates) == Len(aggregates)

distinctAggrIndex(aggregates) == Len(aggregates) + 1

createPushExprAndAlias(h, hp, e, handleDistinct, opcode, oa) ==
    LET alias == IF e.as = "" THEN e.expr.str ELSE e.as
        inner == e.expr.args[1]
        by    == GroupBy(inner, inner, distinctAggrIndex(h[oa].aggregates))
    IN  IF handleDistinct
        THEN [h |-> [h EXCEPT ![oa].preProcess = TRUE],
              hp |-> [haveToTruncate(hp, TRUE) EXCEPT
                         !.qp.groupByExprs = Append(@, by)],
              pushExpr |-> Aliased(inner, ""),
              alias |-> alias, opcode |-> distinctOpcode(opcode)]
        ELSE [h |-> h, hp |-> hp, pushExpr |-> Aliased(e.expr, e.as),
              alias |-> alias, opcode |-> opcode]

\* the loop of planAggregations over the select-items
RECURSIVE planAggregationsSelectLoop(_, _, _, _, _)
planAggregationsSelectLoop(h, hp, plan, oa, i) ==
    IF i > Len(hp.qp.selectExprs) THEN [h |-> h, hp |-> hp, err |-> NoErr]
    ELSE LET e == hp.qp.selectExprs[i]
             pushed(p) ==
                 IF IsErr(p.err) THEN [h |-> p.h, hp |-> hp, err |-> p.err]
                 ELSE planAggregationsSelectLoop(
                          p.h, [hp EXCEPT !.qp.selectExprs[i].expr = p.expr],
                          plan, oa, i + 1)
             aggregated(c, a) ==
                 IF IsErr(a.err) THEN [h |-> a.h, hp |-> c.hp, err |-> a.err]
                 ELSE planAggregationsSelectLoop(
                          [a.h EXCEPT ![oa].aggregates =
                              Append(@, AggregateParams(c.opcode, a.offset, c.alias, e.expr))],
                          c.hp, plan, oa, i + 1)
             created(c) ==
                 aggregated(c, pushProjection(c.h, plan, c.pushExpr, TRUE, FALSE, TRUE))
         IN  IF ~e.aggr \/ oa = 0
             THEN pushed(pushProjection(h, plan, Aliased(e.expr, e.as), TRUE, FALSE, FALSE))
             ELSE IF e.expr.kind # "FuncExpr"
             THEN [h |-> h, hp |-> hp,
                   err |-> Error("UNIMPLEMENTED",
                                 "unsupported: in scatter query: complex aggregate expression")]
             ELSE IF e.expr.fn \notin SupportedAggregates
             THEN [h |-> h, hp |-> hp,
                   err |-> Error("UNIMPLEMENTED",
                                 "unsupported: in scatter query: aggregation function")]
             ELSE created(createPushExprAndAlias(
                              h, hp, e, needDistinctHandling(h, e.expr, e.expr.fn, plan),
                              e.expr.fn, oa))

\* the loop of planAggregations over the group-bys
RECURSIVE planAggregationsGroupLoop(_, _, _, _)
planAggregationsGroupLoop(h, hp, newPlan, i) ==
    IF i > Len(hp.qp.groupByExprs) THEN [h |-> h, hp |-> hp, err |-> NoErr]
    ELSE LET grouped(g) ==
                 IF IsErr(g.err) THEN [h |-> g.h, hp |-> hp, err |-> g.err]
                 ELSE planAggregationsGroupLoop(g.h, haveToTruncate(hp, g.added),
                                                newPlan, i + 1)
         IN  grouped(planGroupByGen4(h, hp.qp.groupByExprs[i], newPlan, FALSE))

groupByOrder(groupExpr) == OrderBy(groupExpr.inner, groupExpr.weightStrExpr, FALSE)

complexAggregate(e) == ~IsAggregation(e.expr) /\ ContainsAggregation(e.expr)

\* projectionError is hp.qp.ProjectionError
planAggregations(h, hp, sel, plan, projectionError) ==
    LET uniqVindex == hasUniqueVindex(hp.qp.groupByExprs)
        joinPlan   == isJoin(h, plan)
        withOA     == ~uniqVindex \/ joinPlan
        oa         == IF withOA THEN Len(h) + 1 ELSE 0
        newPlan    == IF withOA THEN oa ELSE plan
        h0         == IF withOA THEN Append(h, Wrap("orderedAggregate", plan)) ELSE h
        hp0        == IF withOA THEN [hp EXCEPT !.vtgateGrouping = TRUE] ELSE hp
        orderExprs(groups) == [i \in 1..Len(groups) |-> groupByOrder(groups[i])]
        \* done with aggregation planning: should the query fail
        checked(final) ==
            IF /\ final.h[final.plan].kind # "route"
               /\ \E i \in 1..Len(final.hp.qp.selectExprs) :
                      complexAggregate(final.hp.qp.selectExprs[i])
            THEN PlanRes(final.h, final.hp, 0,
                         Error("UNIMPLEMENTED",
                               "unsupported: in scatter query: complex aggregate expression"))
            ELSE final
        ordered(o) ==
            IF IsErr(o.err) THEN PlanRes(o.h, o.hp, 0, o.err)
            ELSE checked(PlanRes([o.h EXCEPT ![oa].left = o.plan], o.hp, oa, NoErr))
        filtered(g, hv) ==
            IF IsErr(hv.err) THEN PlanRes(hv.h, g.hp, 0, hv.err)
            ELSE IF ~g.hp.qp.canPushDownSorting /\ oa # 0
            THEN IF Len(g.hp.qp.groupByExprs) > 0
                 THEN ordered(planOrderBy(hv.h, g.hp, orderExprs(g.hp.qp.groupByExprs), plan))
                 ELSE checked(PlanRes(hv.h, g.hp, plan, NoErr))
            ELSE checked(PlanRes(hv.h, g.hp, hv.plan, NoErr))
        grouped(g) ==
            IF IsErr(g.err) THEN PlanRes(g.h, g.hp, 0, g.err)
            ELSE filtered(g, planHaving(g.h, sel, newPlan))
        selected(s) ==
            IF IsErr(s.err) THEN PlanRes(s.h, s.hp, 0, s.err)
            ELSE grouped(planAggregationsGroupLoop(s.h, s.hp, newPlan, 1))
    IN  IF withOA /\ IsErr(projectionError) THEN PlanRes(h, hp, 0, projectionError)
        ELSE IF joinPlan /\ hp.qp.hasAggr /\ Len(hp.qp.groupByExprs) > 0
        THEN PlanRes(h0, hp0, 0,
                     Error("UNIMPLEMENTED", "unsupported: cross-shard query with aggregates"))
        ELSE selected(planAggregationsSelectLoop(h0, hp0, plan, oa, 1))

planGroupByUsingOrderBy(h, hp, plan) ==
    LET missing(g) == \A j \in 1..Len(hp.qp.orderExprs) :
                          ~EqualsExpr(g.inner, hp.qp.orderExprs[j].inner)
        groups     == SelectSeq(hp.qp.groupByExprs, missing)
        orderExprs == [i \in 1..Len(groups) |-> groupByOrder(groups[i])]
    IN  IF Len(orderExprs) > 0 THEN planOrderBy(h, hp, orderExprs, plan)
        ELSE PlanRes(h, hp, plan, NoErr)

----------------------------------------------------------------------------
(* The distinct planner.                                                   *)

\* GroupByParams.Expr left unset
NoExpr ==
    [kind |-> "none", str |-> "<nil>", name |-> "", deps |-> {},
     typ |-> "none", conv |-> "ok", fn |-> "", distinct |-> FALSE,
     args |-> <<>>, uniq |-> FALSE]

\* sqlparser.NewColName(alias) with the dependencies of expr copied onto it
AliasColName(alias, expr) ==
    [kind |-> "ColName", str |-> alias, name |-> alias, deps |-> expr.deps,
     typ |-> "none", conv |-> "ok", fn |-> "", distinct |-> FALSE,
     args |-> <<>>, uniq |-> FALSE]

\* the alias another select-item goes by: its alias, or its column name
itemAlias(e) ==
    IF e.as # "" THEN e.as
    ELSE IF IsColName(e.expr) THEN e.expr.name
    ELSE ""

\* isAmbiguousOrderBy that looks at explicit aliases only
isAmbiguousOrderByAliasesOnly(index, col, exprs) ==
    /\ col # ""
    /\ \E i \in 1..Len(exprs) : i # index + 1 /\ col = exprs[i].as

isAmbiguousOrderBy(index, col, exprs) ==
    /\ col # ""
    /\ \E i \in 1..Len(exprs) : i # index + 1 /\ col = itemAlias(exprs[i])

selectHasUniqueVindex(exprs) ==
    \E i \in 1..Len(exprs) : exprHasUniqueVindex(exprs[i].expr)

RECURSIVE addDistinctLoop(_, _, _, _, _, _)
addDistinctLoop(h, hp, plan, keys, orderExprs, i) ==
    IF i > Len(hp.qp.selectExprs)
    THEN [h |-> h, hp |-> hp, keys |-> keys, orderExprs |-> orderExprs, err |-> NoErr]
    ELSE LET aliasExpr == hp.qp.selectExprs[i]
             inner == IF aliasExpr.as = "" THEN aliasExpr.expr
                      ELSE AliasColName(aliasExpr.as, aliasExpr.expr)
             pushed(w) ==
                 IF IsErr(w.err)
                 THEN [h |-> w.h, hp |-> hp, keys |-> keys, orderExprs |-> orderExprs,
                       err |-> w.err]
                 ELSE addDistinctLoop(
                          w.h,
                          [setNeedsTruncation(hp, hp.needsTruncation \/ w.added)
                              EXCEPT !.keyOffsets = Append(@, w.offset)],
                          plan,
                          Append(keys, GroupByParams(i - 1, w.wsOffset, NoExpr)),
                          Append(orderExprs, OrderBy(inner, aliasExpr.expr, FALSE)),
                          i + 1)
         IN  IF isAmbiguousOrderBy(i - 1, aliasExpr.as, hp.qp.selectExprs)
             THEN [h |-> h, hp |-> hp, keys |-> keys, orderExprs |-> orderExprs,
                   err |-> ErrAmbiguous]
             ELSE pushed(wrapAndPushExpr(h, aliasExpr.expr, <<aliasExpr.expr>>, plan))

addDistinct(h, hp, plan) ==
    LET ordered(l, o) ==
            IF IsErr(o.err) THEN PlanRes(o.h, o.hp, 0, o.err)
            ELSE PlanRes(Append(o.h, [Wrap("orderedAggregate", o.plan) EXCEPT
                                         !.groupByKeys = l.keys]),
                         o.hp, Len(o.h) + 1, NoErr)
        pushed(l) ==
            IF IsErr(l.err) THEN PlanRes(l.h, l.hp, 0, l.err)
            ELSE ordered(l, planOrderBy(l.h, l.hp, l.orderExprs, plan))
    IN  pushed(addDistinctLoop(h, hp, plan, <<>>, <<>>, 1))

RECURSIVE planDistinctOALoop(_, _, _, _)
planDistinctOALoop(curr, exprs, keys, i) ==
    IF i > Len(exprs) THEN [keys |-> keys, err |-> NoErr]
    ELSE LET expr == exprs[i].expr
             ks == {j \in 1..Len(curr.groupByKeys) :
                       EqualsExpr(expr, curr.groupByKeys[j].expr)}
             as == {j \in 1..Len(curr.aggregates) :
                       EqualsExpr(expr, curr.aggregates[j].expr)}
         IN  IF ks # {}
             THEN planDistinctOALoop(curr, exprs,
                                     Append(keys, curr.groupByKeys[MinOf(ks)]), i + 1)
             ELSE IF as # {}
             THEN planDistinctOALoop(
                      curr, exprs,
                      Append(keys, GroupByParams(curr.aggregates[MinOf(as)].col, -1, NoExpr)),
                      i + 1)
             ELSE [keys |-> keys,
                   err |-> Error("INTERNAL",
                                 "[BUG] unable to plan distinct query as the column is not projected")]

planDistinctOA(h, hp, currPlan) ==
    LET matched(l) ==
            IF IsErr(l.err) THEN PlanRes(h, hp, 0, l.err)
            ELSE PlanRes(Append(h, [Wrap("orderedAggregate", currPlan) EXCEPT
                                       !.groupByKeys = l.keys]),
                         hp, Len(h) + 1, NoErr)
    IN  matched(planDistinctOALoop(h[currPlan], hp.qp.selectExprs, <<>>, 1))

planDistinct(h, hp, plan) ==
    LET kind == h[plan].kind
        h1   == [h EXCEPT ![plan].sqlDistinct = TRUE]
    IN  IF ~hp.qp.distinct THEN PlanRes(h, hp, plan, NoErr)
        ELSE CASE kind = "route" ->
                    IF h[plan].singleShard \/ selectHasUniqueVindex(hp.qp.selectExprs)
                    THEN PlanRes(h1, hp, plan, NoErr)
                    ELSE addDistinct(h1, hp, plan)
               [] kind \in {"join", "pulloutSubquery"} -> addDistinct(h, hp, plan)
               [] kind = "orderedAggregate" -> planDistinctOA(h, hp, plan)
               [] OTHER ->
                    PlanRes(h, hp, 0, Error("INTERNAL", "unknown plan type for DISTINCT"))

----------------------------------------------------------------------------
(* The driver.                                                             *)

GetColumnCount(sel) == Len(sel.selectExprs)

\* truncation that takes the count from the route's own select list
truncateCountOfPlan(h, sel, plan) == Width(h, plan)

\* the count handed to SetTruncateColumnCount
truncateCount(h, sel, plan) == GetColumnCount(sel)

RECURSIVE truncateColumnsIfNeeded(_, _, _, _)
truncateColumnsIfNeeded(h, hp, sel, plan) ==
    LET kind == h[plan].kind
    IN  IF ~hp.needsTruncation THEN [h |-> h, err |-> NoErr]
        ELSE CASE kind \in {"route", "orderedAggregate", "memorySort"} ->
                    [h |-> [h EXCEPT ![plan].truncate = truncateCount(h, sel, plan)],
                     err |-> NoErr]
               [] kind \in {"join", "semiJoin", "hashJoin"} -> [h |-> h, err |-> NoErr]
               [] kind \in {"pulloutSubquery", "filter"} ->
                    truncateColumnsIfNeeded(h, hp, sel, h[plan].left)
               [] OTHER ->
                    [h |-> h,
                     err |-> Error("INTERNAL", "plan type not known for column truncation")]

RECURSIVE pushProjectionsLoop(_, _, _, _)
pushProjectionsLoop(h, hp, plan, i) ==
    IF i > Len(hp.qp.selectExprs) THEN [h |-> h, hp |-> hp, err |-> NoErr]
    ELSE LET e == hp.qp.selectExprs[i]
             pushed(p) ==
                 IF IsErr(p.err) THEN [h |-> p.h, hp |-> hp, err |-> p.err]
                 ELSE pushProjectionsLoop(
                          p.h, [hp EXCEPT !.qp.selectExprs[i].expr = p.expr], plan, i + 1)
         IN  pushed(pushProjection(h, plan, Aliased(e.expr, e.as), TRUE, FALSE, FALSE))

pushProjections(h, hp, plan) == pushProjectionsLoop(h, hp, plan, 1)

\* the whole SELECT installed in the route
planSingleShardRoutePlan(h, sel, rb) ==
    [h EXCEPT ![rb].selectExprs = sel.selectExprs,
              ![rb].groupBy = [i \in 1..Len(sel.groupBy) |-> sel.groupBy[i].inner],
              ![rb].sqlOrderBy = [i \in 1..Len(sel.orderBy) |-> sel.orderBy[i].inner],
              ![rb].having = sel.having,
              ![rb].sqlDistinct = sel.distinct]

\* the query projection of a SELECT
CreateQPFromSelect(sel) ==
    [selectExprs |-> [i \in 1..Len(sel.selectExprs) |->
                        [expr |-> sel.selectExprs[i].expr, as |-> sel.selectExprs[i].as,
                         aggr |-> ContainsAggregation(sel.selectExprs[i].expr)]],
     groupByExprs |-> [i \in 1..Len(sel.groupBy) |->
                        GroupBy(sel.groupBy[i].inner, sel.groupBy[i].weightStrExpr, 0)],
     orderExprs |-> sel.orderBy,
     canPushDownSorting |->
        \A i \in 1..Len(sel.orderBy) : ~ContainsAggregation(sel.orderBy[i].weightStrExpr),
     hasStar |-> FALSE,
     hasAggr |-> \E i \in 1..Len(sel.selectExprs) :
                    ContainsAggregation(sel.selectExprs[i].expr),
     distinct |-> sel.distinct,
     built |-> TRUE]

NeedsAggregation(qp) == qp.hasAggr \/ Len(qp.groupByExprs) > 0

needAggrOrHaving(hp, sel) == NeedsAggregation(hp.qp) \/ sel.having # <<>>

canShortcut(h, hp, sel, plan) ==
    /\ h[plan].kind = "route"
    /\ ~needAggrOrHaving(hp, sel)
    /\ Len(hp.qp.orderExprs) = 0

\* a single-shard test that no plan passes
isSingleShardRouteNever(h, plan) == FALSE

\* isRoute && rb.isSingleShard()
isSingleShardRoute(h, plan) == h[plan].kind = "route" /\ h[plan].singleShard

----------------------------------------------------------------------------
(* Input plans: what the operator-to-plan transformation hands to the      *)
(* horizon planner.  Routes start with an empty select list.               *)

\* the expressions of the queries: a, b, u, x are columns of table 1,
\* c of table 2, d of table 3
ColA == ColName("a", 1, "num", FALSE)

ColB == ColName("b", 1, "text", FALSE)

ColU == ColName("u", 1, "num", TRUE)

ColC == ColName("c", 2, "text", FALSE)

ColD == ColName("d", 3, "text", FALSE)

APlus1 == BinaryExpr(ColA, "+", Literal("1"), "ok")

LowerB == FuncExpr("lower", FALSE, ColB)

LowerC == FuncExpr("lower", FALSE, ColC)

LowerD == FuncExpr("lower", FALSE, ColD)

APlusC == BinaryExpr(ColA, "+", ColC, "ok")

ConcatAC == BinaryExpr(ColA, "||", ColC, "unimpl")

ColX == ColName("x", 1, "text", FALSE)

CDivZero == BinaryExpr(ColC, "/", Literal("0"), "other")

----------------------------------------------------------------------------
(* Direct calls of pushProjection on a plan (SpecPush).                    *)

PushTrees ==
    << Plan(<<Route({1}, FALSE)>>, 1),
       Plan(<<Route({1}, FALSE), Route({2}, FALSE), Join("join", "Join", 1, 2)>>, 3),
       Plan(<<Route({1}, FALSE), Route({2}, FALSE), Join("join", "LeftJoin", 1, 2)>>, 3),
       Plan(<<Route({1}, FALSE), Route({2}, FALSE), Join("hashJoin", "Join", 1, 2)>>, 3),
       Plan(<<Route({1}, FALSE), Route({2}, FALSE), Join("hashJoin", "LeftJoin", 1, 2)>>, 3),
       Plan(<<Route({1}, FALSE), Route({2}, FALSE), Join("semiJoin", "", 1, 2)>>, 3),
       Plan(<<Route({1}, FALSE), Wrap("pulloutSubquery", 1)>>, 2),
       Plan(<<Route({1}, FALSE), Wrap("simpleProjection", 1)>>, 2),
       Plan(<<Route({1}, FALSE), Route({2}, FALSE), Wrap("pulloutSubquery", 2),
              Join("join", "LeftJoin", 1, 3)>>, 4),
       Plan(<<Route({1}, FALSE), Route({2}, FALSE), Wrap("limit", 2),
              Join("join", "LeftJoin", 1, 3)>>, 4),
       Plan(<<Route({1}, FALSE), Route({2}, FALSE), Wrap("distinct", 2),
              Join("hashJoin", "LeftJoin", 1, 3)>>, 4),
       Plan(<<Route({1}, FALSE), Route({2}, FALSE), Wrap("simpleProjection", 2),
              Join("join", "LeftJoin", 1, 3)>>, 4),
       Plan(<<Route({1}, FALSE), Route({2}, FALSE), Route({3}, FALSE),
              Join("semiJoin", "", 2, 3), Join("join", "LeftJoin", 1, 4)>>, 5),
       Plan(<<Route({1}, FALSE), Route({2}, FALSE), Route({3}, FALSE),
              Join("join", "Join", 2, 3), Join("join", "LeftJoin", 1, 4)>>, 5),
       Plan(<<Route({1}, FALSE), Route({2}, FALSE), Route({3}, FALSE),
              Join("join", "LeftJoin", 2, 3), Join("join", "Join", 1, 4)>>, 5),
       Plan(<<Route({1}, FALSE), Route({2}, FALSE), Route({3}, FALSE),
              Join("join", "LeftJoin", 1, 2), Join("join", "Join", 4, 3)>>, 5),
       Plan(<<UnionRoute({1}), Wrap("concatenate", 1)>>, 2) >>

PushExprs ==
    << Aliased(ColA, ""), Aliased(ColA, "x"), Aliased(ColB, ""),
       Aliased(ColC, ""), Aliased(ColD, ""),
       Aliased(APlus1, ""), Aliased(APlus1, "x"),
       Aliased(LowerB, ""), Aliased(LowerC, ""), Aliased(LowerD, ""),
       Aliased(APlusC, ""), Aliased(ConcatAC, ""), Aliased(CDivZero, ""),
       Aliased(ColX, ""), Aliased(ColX, "x") >>

NoCall ==
    [op |-> "none", n |-> 0, expr |-> Aliased(NullVal, ""),
     reuseCol |-> FALSE, hasAggregation |-> FALSE,
     offset |-> 0, added |-> FALSE, err |-> NoErr,
     prevOffset |-> 0, prevAdded |-> FALSE, same |-> FALSE,
     orig |-> NullVal]

NoQP ==
    [selectExprs |-> <<>>, groupByExprs |-> <<>>, orderExprs |-> <<>>,
     canPushDownSorting |-> TRUE, hasStar |-> FALSE, hasAggr |-> FALSE,
     distinct |-> FALSE, built |-> FALSE]

NoQuery ==
    [selectExprs |-> <<>>, groupBy |-> <<>>, orderBy |-> <<>>,
     having |-> <<>>, distinct |-> FALSE]

\* the record planHorizon starts with: no query projection, flags false
NewHP ==
    [needsTruncation |-> FALSE, vtgateGrouping |-> FALSE, qp |-> NoQP,
     everTruncate |-> FALSE, truncateReset |-> FALSE, keyOffsets |-> <<>>]

InitPush ==
    /\ \E i \in 1..Len(PushTrees) :
          /\ heap = PushTrees[i].h
          /\ root = PushTrees[i].root
    /\ input = 0
    /\ query = NoQuery
    /\ horizon = NewHP
    /\ pc = "push"
    /\ err = NoErr
    /\ call = NoCall

\* pushProjection(expr, plan, semTable, true, reuseCol, hasAggregation)
Push ==
    /\ pc = "push"
    /\ call.n < MaxPush
    /\ \E i \in 1..Len(PushExprs), reuseCol \in BOOLEAN, hasAggregation \in BOOLEAN :
          LET r == pushProjection(heap, root, PushExprs[i], TRUE, reuseCol, hasAggregation)
          IN  /\ heap' = r.h
              /\ call' = [op |-> "push", n |-> call.n + 1,
                          expr |-> Aliased(r.expr, PushExprs[i].as),
                          reuseCol |-> reuseCol, hasAggregation |-> hasAggregation,
                          offset |-> r.offset, added |-> r.added, err |-> r.err,
                          prevOffset |-> 0, prevAdded |-> FALSE,
                          same |-> (r.h = heap), orig |-> PushExprs[i].expr]
    /\ UNCHANGED <<root, input, query, horizon, pc, err>>

\* the expression of the last successful call pushed once more, with reuseCol
PushAgain ==
    /\ pc = "push"
    /\ call.op = "push"
    /\ call.reuseCol
    /\ ~IsErr(call.err)
    /\ LET r == pushProjection(heap, root, call.expr, TRUE, TRUE, call.hasAggregation)
       IN  /\ heap' = r.h
           /\ call' = [call EXCEPT !.op = "again",
                          !.expr = Aliased(r.expr, call.expr.as),
                          !.offset = r.offset, !.added = r.added, !.err = r.err,
                          !.prevOffset = call.offset, !.prevAdded = call.added,
                          !.same = (r.h = heap)]
    /\ UNCHANGED <<root, input, query, horizon, pc, err>>

NextPush == Push \/ PushAgain

SpecPush == InitPush /\ [][NextPush]_vars

----------------------------------------------------------------------------
(* Claims about pushProjection (checked under SpecPush).                   *)

JoinNodes(h) == {id \in 1..Len(h) : h[id].kind \in {"join", "hashJoin"}}

ValidCol(h, id, c) ==
    /\ c # 0
    /\ c < 0 => (-c) - 1 < Width(h, h[id].left)
    /\ c > 0 => c - 1 < Width(h, h[id].right)

\* C2: every entry c of every join's and hash join's Cols is non-zero and
\* |c|-1 is an output column offset of the left child (c < 0) or of the
\* right child (c > 0).
C2_ColumnAddressing ==
    \A id \in JoinNodes(heap) :
        \A i \in 1..Len(heap[id].cols) : ValidCol(heap, id, heap[id].cols[i])

\* a join that has recorded a column of each side, after the last call
C2_Witness ==
    /\ call.n = MaxPush
    /\ \E id \in JoinNodes(heap) :
          /\ \E i \in 1..Len(heap[id].cols) : heap[id].cols[i] < 0
          /\ \E i \in 1..Len(heap[id].cols) : heap[id].cols[i] > 0

Reused ==
    /\ ~IsErr(call.err)
    /\ call.offset = call.prevOffset
    /\ ~call.added
    /\ call.same

RECURSIVE Target(_, _, _, _)
Target(h, id, e, hasAggregation) ==
    LET node == h[id]
        lhs  == ContainsTables(h, node.left)
        rhs  == ContainsTables(h, node.right)
        down == Target(h, node.right, rewriteLHS(e, lhs), FALSE)
        rt   == Target(h, node.right, e, hasAggregation)
    IN  CASE node.kind = "route" -> [route |-> id, outer |-> FALSE, expr |-> e]
          [] node.kind \in {"join", "hashJoin"} ->
                IF IsSolvedBy(e.deps, lhs) THEN Target(h, node.left, e, hasAggregation)
                ELSE IF IsSolvedBy(e.deps, rhs)
                THEN [rt EXCEPT !.outer = @ \/ node.opcode = "LeftJoin"]
                ELSE IF hasAggregation \/ node.kind = "hashJoin"
                THEN [route |-> 0, outer |-> FALSE, expr |-> e]
                ELSE [down EXCEPT !.outer = @ \/ node.opcode = "LeftJoin"]
          [] node.kind \in {"pulloutSubquery", "limit", "distinct",
                            "simpleProjection", "semiJoin"} ->
                Target(h, node.left, e, hasAggregation)
          [] OTHER -> [route |-> 0, outer |-> FALSE, expr |-> e]

InSelect(h, id, e) ==
    \E i \in 1..Len(h[id].selectExprs) : EqualsExpr(h[id].selectExprs[i].expr, e)

\* C8: a non-column expression that the eval engine cannot convert
\* (UNIMPLEMENTED), pushed at the root with inner = true, fails with the
\* cross-shard left join error exactly when its way to the route goes into
\* the right child of a LeftJoin join or hash join; otherwise it is in the
\* route's select list afterwards.  A conversion error of another code is
\* returned whatever the way.
C8_InnerFlag ==
    LET t == Target(heap, root, call.orig, call.hasAggregation)
    IN  (call.op = "push" /\ ~IsColName(call.orig) /\ t.route # 0)
        => /\ call.orig.conv = "unimpl" =>
                /\ (call.err = ErrCrossShardLeftJoin) <=> t.outer
                /\ ~t.outer => /\ ~IsErr(call.err)
                               /\ InSelect(heap, t.route, t.expr)
           /\ call.orig.conv = "other" => call.err = ErrConvertOther
           /\ call.orig.conv = "ok" => ~IsErr(call.err)

\* lower(d) stopped below a pullout-free inner join that lies in the right
\* child of a LeftJoin
C8_Witness ==
    /\ call.op = "push"
    /\ call.orig = LowerD
    /\ heap[root].opcode = "LeftJoin"
    /\ heap[heap[root].right].kind = "join"
    /\ heap[heap[root].right].opcode = "Join"
    /\ call.err = ErrCrossShardLeftJoin

----------------------------------------------------------------------------
(* planHorizon on a plan and a SELECT (Spec).  The SELECTs have no star     *)
(* expression, so that the query projection has no projection error.       *)

CountB == FuncExpr("count", FALSE, ColB)

CountDistinctB == FuncExpr("count", TRUE, ColB)

SumDistinctA == FuncExpr("sum", TRUE, ColA)

HavingPredicate == BinaryExpr(CountB, ">", Literal("1"), "ok")

\* the error the semantic analysis has left for a query that cannot run sharded
ShardedError == Error("UNIMPLEMENTED", "unsupported: query in a sharded keyspace")

\* the derived-table plan: an ordered aggregate grouping a route on b
DerivedAggregate ==
    [Wrap("orderedAggregate", 1) EXCEPT !.groupByKeys = <<GroupByParams(0, -1, ColB)>>]

DerivedRoute ==
    [Route({1}, FALSE) EXCEPT !.selectExprs = <<Aliased(ColB, "")>>,
                              !.groupBy = <<ColB>>]

HorizonTrees ==
    << Plan(<<Route({1}, FALSE)>>, 1),
       Plan(<<Route({1}, TRUE)>>, 1),
       Plan(<<Route({1}, FALSE), Wrap("pulloutSubquery", 1)>>, 2),
       Plan(<<Route({1}, FALSE), Route({2}, FALSE), Join("join", "Join", 1, 2)>>, 3),
       Plan(<<Route({1}, FALSE), Route({2}, FALSE), Join("hashJoin", "Join", 1, 2)>>, 3),
       Plan(<<Route({1}, FALSE), Route({2}, FALSE), Join("semiJoin", "", 1, 2)>>, 3),
       Plan(<<DerivedRoute, DerivedAggregate>>, 2) >>

SelectItems ==
    { Aliased(ColB, ""), Aliased(ColU, ""), Aliased(ColA, "x"), Aliased(ColU, "x"),
      Aliased(ColX, ""), Aliased(CountB, ""), Aliased(CountDistinctB, ""),
      Aliased(SumDistinctA, ""), Aliased(ColC, "") }

\* the select lists over the tables of the plan
SelectLists(tables) ==
    LET items == {e \in SelectItems : e.expr.deps \subseteq tables}
    IN  UNION {[1..n -> items] : n \in 1..MaxSel}

GroupByLists == { <<>>, <<GroupBy(ColB, ColB, 0)>>, <<GroupBy(ColU, ColU, 0)>> }

\* ORDER BY on a select-item: by its alias when it has one
orderOfItem(e) ==
    IF e.as = "" THEN OrderBy(e.expr, e.expr, FALSE)
    ELSE OrderBy(AliasColName(e.as, e.expr), e.expr, FALSE)

\* ORDER BY b, count(b): two orders, selected or not
OrderOnBAndCount == <<OrderBy(ColB, ColB, FALSE), OrderBy(CountB, CountB, FALSE)>>

\* no ORDER BY, ORDER BY NULL, ORDER BY b, count(b), ORDER BY a select-item
OrderByLists(selectExprs) ==
    { <<>>, <<OrderBy(NullVal, NullVal, FALSE)>>, OrderOnBAndCount }
        \cup { <<orderOfItem(selectExprs[i])>> : i \in 1..Len(selectExprs) }

Init ==
    /\ \E i \in 1..Len(HorizonTrees) :
          /\ heap = HorizonTrees[i].h
          /\ root = HorizonTrees[i].root
          /\ input = HorizonTrees[i].root
          /\ \E selectExprs \in SelectLists(ContainsTables(HorizonTrees[i].h,
                                                           HorizonTrees[i].root)),
                groupBy \in GroupByLists, distinct \in BOOLEAN,
                having \in {<<>>, <<HavingPredicate>>} :
                \E orderBy \in OrderByLists(selectExprs) :
                    query = [selectExprs |-> selectExprs, groupBy |-> groupBy,
                             orderBy |-> orderBy, having |-> having,
                             distinct |-> distinct]
    /\ horizon = NewHP
    /\ pc = "start"
    /\ err = NoErr
    /\ call = NoCall

Fail(e) ==
    /\ err' = e
    /\ pc' = "error"

\* the step a planner returns from: on to pc next, or out with its error
Return(r, next) ==
    /\ heap' = r.h
    /\ horizon' = r.hp
    /\ IF IsErr(r.err) THEN Fail(r.err) /\ root' = root
       ELSE /\ root' = r.plan
            /\ pc' = next
            /\ err' = err

\* if !isRoute && ctx.semTable.ShardedError != nil
ReturnShardedError ==
    /\ pc = "start"
    /\ heap[root].kind # "route"
    /\ Fail(ShardedError)
    /\ UNCHANGED <<heap, root, input, query, horizon, call>>

\* if isRoute && rb.isSingleShard()
PlanSingleShardRoute ==
    /\ pc = "start"
    /\ isSingleShardRoute(heap, root)
    /\ heap' = planSingleShardRoutePlan(heap, query, root)
    /\ pc' = "done"
    /\ UNCHANGED <<root, input, query, horizon, err, call>>

CreateQP ==
    /\ pc = "start"
    /\ ~isSingleShardRoute(heap, root)
    /\ horizon' = [horizon EXCEPT !.qp = CreateQPFromSelect(query)]
    /\ pc' = "select"
    /\ UNCHANGED <<heap, root, input, query, err, call>>

PlanAggregations ==
    /\ pc = "select"
    /\ needAggrOrHaving(horizon, query)
    /\ \E r \in {planAggregations(heap, horizon, query, root, NoErr)} :
          Return(r, "orderBy")
    /\ call' = [NoCall EXCEPT !.op = "planAggregations", !.n = Len(heap) + 1]
    /\ UNCHANGED <<input, query>>

\* an ordered aggregate gets a simple projection on top
wrapOrderedAggregate(h, plan) ==
    IF h[plan].kind = "orderedAggregate"
    THEN Plan(Append(h, Wrap("simpleProjection", plan)), Len(h) + 1)
    ELSE Plan(h, plan)

Shortcut ==
    /\ pc = "select"
    /\ ~needAggrOrHaving(horizon, query)
    /\ canShortcut(heap, horizon, query, root)
    /\ heap' = planSingleShardRoutePlan(heap, query, root)
    /\ pc' = "distinct"
    /\ UNCHANGED <<root, input, query, horizon, err, call>>

PushProjections ==
    /\ pc = "select"
    /\ ~needAggrOrHaving(horizon, query)
    /\ ~canShortcut(heap, horizon, query, root)
    /\ \E w \in {wrapOrderedAggregate(heap, root)} :
          \E p \in {pushProjections(w.h, horizon, w.root)} :
             Return(PlanRes(p.h, p.hp, w.root, p.err), "orderBy")
    /\ UNCHANGED <<input, query, call>>

PlanOrderBy ==
    /\ pc = "orderBy"
    /\ IF Len(horizon.qp.orderExprs) > 0
       THEN \E r \in {planOrderBy(heap, horizon, horizon.qp.orderExprs, root)} :
               Return(r, "groupBy")
       ELSE /\ pc' = "groupBy"
            /\ UNCHANGED <<heap, root, horizon, err>>
    /\ UNCHANGED <<input, query, call>>

PlanGroupByUsingOrderBy ==
    /\ pc = "groupBy"
    /\ IF horizon.qp.canPushDownSorting /\ horizon.vtgateGrouping
       THEN \E r \in {planGroupByUsingOrderBy(heap, horizon, root)} :
               Return(r, "distinct")
       ELSE /\ pc' = "distinct"
            /\ UNCHANGED <<heap, root, horizon, err>>
    /\ UNCHANGED <<input, query, call>>

PlanDistinct ==
    /\ pc = "distinct"
    /\ \E r \in {planDistinct(heap, horizon, root)} : Return(r, "truncate")
    /\ UNCHANGED <<input, query, call>>

TruncateColumnsIfNeeded ==
    /\ pc = "truncate"
    /\ \E t \in {truncateColumnsIfNeeded(heap, horizon, query, root)} :
          Return(PlanRes(t.h, horizon, root, t.err), "done")
    /\ UNCHANGED <<input, query, call>>

Next ==
    \/ ReturnShardedError
    \/ PlanSingleShardRoute
    \/ CreateQP
    \/ PlanAggregations
    \/ Shortcut
    \/ PushProjections
    \/ PlanOrderBy
    \/ PlanGroupByUsingOrderBy
    \/ PlanDistinct
    \/ TruncateColumnsIfNeeded

Spec == Init /\ [][Next]_vars

----------------------------------------------------------------------------
(* Claims about planHorizon (checked under Spec).                          *)

NodesOfKind(h, kinds) == {id \in 1..Len(h) : h[id].kind \in kinds}

\* the node the truncation walk ends at
RECURSIVE TruncationTarget(_, _)
TruncationTarget(h, id) ==
    IF h[id].kind \in {"pulloutSubquery", "filter"} THEN TruncationTarget(h, h[id].left)
    ELSE id

\* C1: after a successful planHorizon, if needsTruncation was ever set and
\* the root, looked at through pullout-subquery and filter nodes, is a route,
\* an ordered aggregate or a memory sort, the truncate column count of that
\* node is the column count of the SELECT.
C1_TruncationCorrect ==
    LET t == TruncationTarget(heap, root)
    IN  (/\ pc = "done"
         /\ horizon.everTruncate
         /\ heap[t].kind \in {"route", "orderedAggregate", "memorySort"})
        => heap[t].truncate = GetColumnCount(query)

\* a DISTINCT without aggregation, grouping or ordering: the distinct planner
\* is the step that sets needsTruncation and puts an ordered aggregate on top
C1_Witness ==
    /\ pc = "done"
    /\ query.distinct
    /\ query.groupBy = <<>> /\ query.orderBy = <<>> /\ query.having = <<>>
    /\ ~horizon.qp.hasAggr
    /\ horizon.everTruncate
    /\ root # input
    /\ heap[root].kind = "orderedAggregate"
    /\ heap[root].truncate = GetColumnCount(query)

SingleShardInput == heap[input].kind = "route" /\ heap[input].singleShard

\* C4: for a single-shard route planHorizon returns that route with the
\* whole SELECT installed in it and nothing else done: no query projection,
\* no new node, needsTruncation and vtgateGrouping false, no truncate count.
C4_SingleShardShortcut ==
    (SingleShardInput /\ pc # "start")
    => /\ pc = "done"
       /\ err = NoErr
       /\ root = input
       /\ Len(heap) = 1
       /\ heap[root] = planSingleShardRoutePlan(<<Route({1}, TRUE)>>, query, 1)[1]
       /\ heap[root].selectExprs = query.selectExprs
       /\ heap[root].truncate = -1
       /\ NodesOfKind(heap, {"orderedAggregate", "memorySort", "filter",
                             "simpleProjection"}) = {}
       /\ ~horizon.qp.built
       /\ ~horizon.needsTruncation /\ ~horizon.everTruncate
       /\ ~horizon.vtgateGrouping

\* a single-shard route with a SELECT that gives every later step work
C4_Witness ==
    /\ SingleShardInput
    /\ pc = "done"
    /\ query.distinct
    /\ query.groupBy # <<>> /\ query.orderBy # <<>> /\ query.having # <<>>
    /\ horizon.qp = NoQP
    /\ \E i \in 1..Len(query.selectExprs) : query.selectExprs[i].expr = CountDistinctB

\* the select-items that get the distinct-aggregate handling on a route
IsDistinctAggregate(e) ==
    /\ e.expr.kind = "FuncExpr"
    /\ e.expr.fn \in {"count", "sum"}
    /\ e.expr.distinct
    /\ ~exprHasUniqueVindex(e.expr.args[1])

\* the place among the aggregates of the i-th select-item
AggregateIndex(selectExprs, i) ==
    Cardinality({j \in 1..i : ContainsAggregation(selectExprs[j].expr)})

AfterAggregationsOnRoute ==
    /\ call.op = "planAggregations"
    /\ pc = "orderBy"
    /\ heap[input].kind = "route"
    /\ call.n \in 1..Len(heap)
    /\ heap[call.n].kind = "orderedAggregate"

\* C5: for every COUNT(DISTINCT c) / SUM(DISTINCT c) select-item planned with
\* an ordered aggregate over a multi-shard route, c without unique vindex,
\* (a) the aggregate made for it has the _distinct opcode, (b) a synthetic
\* group-by on c has a DistinctAggrIndex k with 1 <= k <= |Aggregates| and
\* Aggregates[k-1] is that aggregate, (c) PreProcess is true, (d)
\* needsTruncation is set; and the GroupByKeys hold the explicit group-bys only.
C5_DistinctAggregate ==
    AfterAggregationsOnRoute =>
        LET oa == heap[call.n]
            groups == horizon.qp.groupByExprs
        IN  /\ Len(oa.groupByKeys) = Len(query.groupBy)
            /\ \A i \in 1..Len(query.selectExprs) :
                  IsDistinctAggregate(query.selectExprs[i]) =>
                     LET e == query.selectExprs[i].expr
                         k == AggregateIndex(query.selectExprs, i)
                     IN  /\ k \in 1..Len(oa.aggregates)
                         /\ oa.aggregates[k].expr = e
                         /\ oa.aggregates[k].opcode = distinctOpcode(e.fn)
                         /\ oa.aggregates[k].opcode \in {"count_distinct", "sum_distinct"}
                         /\ \E g \in 1..Len(groups) :
                               /\ groups[g].distinctAggrIndex = k
                               /\ groups[g].inner = e.args[1]
                         /\ \A g \in 1..Len(groups) :
                               groups[g].distinctAggrIndex # 0
                               => groups[g].distinctAggrIndex \in 1..Len(oa.aggregates)
                         /\ oa.preProcess
                         /\ horizon.needsTruncation

\* count(b) before count(distinct b), with an explicit group-by
C5_Witness ==
    /\ AfterAggregationsOnRoute
    /\ query.selectExprs = <<Aliased(CountB, ""), Aliased(CountDistinctB, "")>>
    /\ query.groupBy # <<>>
    /\ heap[call.n].preProcess
    /\ Len(heap[call.n].aggregates) = 2
    /\ heap[call.n].aggregates[2].opcode = "count_distinct"

\* C9: needsTruncation is monotone: no write inside a step takes it from
\* true to false, and no step of planHorizon ends with it false after it
\* began with it true.
C9_TruncationMonotone ==
    /\ [](~horizon.truncateReset)
    /\ [][horizon.needsTruncation => horizon'.needsTruncation]_vars

\* needsTruncation set by the aggregation planner and still set at the end,
\* after the order-by planner called haveToTruncate(false)
C9_Witness ==
    /\ pc = "done"
    /\ call.op = "planAggregations"
    /\ heap[input].kind = "route"
    /\ horizon.needsTruncation
    /\ query.orderBy = <<OrderBy(ColU, ColU, FALSE)>>
    /\ \E i \in 1..Len(query.selectExprs) : IsDistinctAggregate(query.selectExprs[i])

Routes(h) == NodesOfKind(h, {"route"})

\* C6: no weight_string item of a route's select list is on a numeric
\* column: wrapAndPushExpr pushes no weight string for an order-by, group-by
\* or distinct key whose weight-string expression is a numeric column, also
\* when the inner expression is an alias of unknown type.
C6_NoWeightStringForNumeric ==
    \A id \in Routes(heap) :
        \A i \in 1..Len(heap[id].selectExprs) :
            LET e == heap[id].selectExprs[i].expr
            IN  IsWeightString(e) => ~(IsColName(e.args[1]) /\ IsNumber(e.args[1]))

\* two select-items share an alias: an explicit alias equals another item's
\* explicit alias or bare column name
SharedAlias(exprs) ==
    \E i, j \in 1..Len(exprs) :
        i # j /\ exprs[i].as # "" /\ exprs[i].as = itemAlias(exprs[j])

\* the first select-item whose alias another item shares
FirstAmbiguous(exprs) ==
    MinOf({i \in 1..Len(exprs) :
              exprs[i].as # "" /\ \E j \in 1..Len(exprs) :
                                     j # i /\ exprs[i].as = itemAlias(exprs[j])})

\* the plans the distinct planner hands to addDistinct
DistinctAdded(h, hp, plan) ==
    \/ h[plan].kind \in {"join", "pulloutSubquery"}
    \/ /\ h[plan].kind = "route"
       /\ ~h[plan].singleShard
       /\ ~selectHasUniqueVindex(hp.qp.selectExprs)

C10_WeightStringInGroupBy ==
    pc = "done" =>
        \A id \in Routes(heap) :
            heap[id].groupBy # <<>> =>
                \A i \in 1..Len(heap[id].selectExprs) :
                    LET e == heap[id].selectExprs[i].expr
                    IN  IsWeightString(e) =>
                            \E g \in 1..Len(heap[id].groupBy) :
                                EqualsExpr(heap[id].groupBy[g], e)

\* the input plans of the horizon planner that are rooted at a multi-shard
\* route, a join, a hash join, a semi join or a pullout subquery over routes
PlainInput ==
    /\ heap[input].kind \in {"route", "join", "hashJoin", "semiJoin", "pulloutSubquery"}
    /\ ~SingleShardInput

\* C11: planHorizon returns no error of code INTERNAL for an input plan
\* rooted at a multi-shard route, a join, a hash join, a semi join or a
\* pullout subquery, whatever the DISTINCT, ORDER BY, HAVING, GROUP BY and
\* aggregates of the SELECT.
C11_NoInternalError == (PlainInput /\ pc = "error") => err.code # "INTERNAL"

\* the message of an assertion: it starts with [BUG]
HasBugPrefix(msg) == Len(msg) >= 5 /\ SubSeq(msg, 1, 5) = "[BUG]"

\* C12: every error planHorizon returns has code INTERNAL exactly when its
\* message starts with [BUG].
C12_BugPrefixIffInternal ==
    pc = "error" => ((err.code = "INTERNAL") <=> HasBugPrefix(err.msg))

\* planAggregations has returned without error after building an ordered
\* aggregate (node call.n)
AfterOrderedAggregation ==
    /\ call.op = "planAggregations"
    /\ pc = "orderBy"
    /\ horizon.vtgateGrouping

\* C13: when planAggregations takes the ordered-aggregate path and the SELECT
\* has a HAVING, the plan it returns is the filter made by the HAVING pusher
\* with the ordered aggregate as its input, with and without
\* CanPushDownSorting.
C13_FilterAboveAggregate ==
    (AfterOrderedAggregation /\ query.having # <<>>)
    => /\ heap[root].kind = "filter"
       /\ heap[root].predicate = query.having
       /\ heap[root].left = call.n
       /\ heap[call.n].kind = "orderedAggregate"

\* the nodes of the plan rooted at id
RECURSIVE PlanNodes(_, _)
PlanNodes(h, id) ==
    IF id = 0 THEN {}
    ELSE {id} \cup PlanNodes(h, h[id].left) \cup PlanNodes(h, h[id].right)

\* C14: whenever planAggregations has set vtgateGrouping and returns without
\* error, the plan it returns contains the ordered aggregate it built, with
\* one aggregate per aggregating select-item, whatever CanPushDownSorting
\* and the number of group-by expressions.
C14_AggregateInReturnedPlan ==
    AfterOrderedAggregation
    => /\ call.n \in PlanNodes(heap, root)
       /\ heap[call.n].kind = "orderedAggregate"
       /\ Len(heap[call.n].aggregates)
             = AggregateIndex(query.selectExprs, Len(query.selectExprs))

\* C15: the HAVING pusher removes no operator: after planAggregations has
\* applied it without error, every node of the input plan is a node of the
\* returned plan; a pullout subquery over a route stays the root.
C15_HavingKeepsNodes ==
    (call.op = "planAggregations" /\ pc = "orderBy" /\ query.having # <<>>)
    => /\ PlanNodes(heap, input) \subseteq PlanNodes(heap, root)
       /\ (heap[input].kind = "pulloutSubquery" /\ ~horizon.vtgateGrouping)
          => root = input

ColsOf(orderBy) == {orderBy[i].col : i \in 1..Len(orderBy)}

KeyColsOf(keys) == {keys[i].keyCol : i \in 1..Len(keys)}

\* the output columns the rows of a plan are sorted on: the sort columns of
\* a route or a memory sort, the group keys of an ordered aggregate (every
\* column when it has no group key and returns one row), and for
\* a join the columns it takes from the side whose order it keeps (the left
\* side of a join and a semi join, the right side of a hash join)
RECURSIVE SortedCols(_, _)
SortedCols(h, id) ==
    LET node == h[id]
        kind == node.kind
        below == SortedCols(h, node.left)
    IN  CASE kind = "route" -> ColsOf(node.orderBy)
          [] kind = "memorySort" -> ColsOf(node.orderBy)
          [] kind = "orderedAggregate" ->
                IF node.groupByKeys = <<>> THEN 0..Width(h, id)
                ELSE KeyColsOf(node.groupByKeys)
          [] kind \in {"join", "semiJoin"} ->
                {i - 1 : i \in {j \in 1..Len(node.cols) :
                                  node.cols[j] < 0 /\ (-node.cols[j]) - 1 \in below}}
          [] kind = "hashJoin" ->
                {i - 1 : i \in {j \in 1..Len(node.cols) :
                                  /\ node.cols[j] > 0
                                  /\ node.cols[j] - 1 \in SortedCols(h, node.right)}}
          [] kind = "simpleProjection" ->
                {i - 1 : i \in {j \in 1..Len(node.cols) : node.cols[j] \in below}}
          [] OTHER -> below

\* no expression is selected twice
NoRepeatedItem(exprs) ==
    \A i, j \in 1..Len(exprs) : i # j => ~EqualsExpr(exprs[i].expr, exprs[j].expr)

\* C16: in the plan returned by a successful planHorizon the input of every
\* ordered aggregate with group keys is sorted on the column of each of
\* its group keys (checked for the SELECTs that select no expression twice,
\* so that a column has one offset).
C16_AggregateInputSorted ==
    (pc = "done" /\ NoRepeatedItem(query.selectExprs)) =>
        \A id \in PlanNodes(heap, root) :
            (heap[id].kind = "orderedAggregate" /\ heap[id].groupByKeys # <<>>)
            => KeyColsOf(heap[id].groupByKeys) \subseteq SortedCols(heap, heap[id].left)

----------------------------------------------------------------------------
(* Claims about pushProjection on a simple projection (checked under       *)
(* SpecPush).                                                              *)

Range(seq) == {seq[i] : i \in 1..Len(seq)}

NoRepeatedCol(cols) == \A i, j \in 1..Len(cols) : cols[i] = cols[j] => i = j

OnSimpleProjection ==
    /\ heap[root].kind = "simpleProjection"
    /\ heap[heap[root].left].kind = "route"

----------------------------------------------------------------------------
(* Further claims about planHorizon (checked under Spec).                  *)

\* every select-item is a group-by key of the ordered aggregate
SelectsGroupKeys(exprs, oa) ==
    \A i \in 1..Len(exprs) :
        \E k \in 1..Len(oa.groupByKeys) : EqualsExpr(oa.groupByKeys[k].expr, exprs[i].expr)

\* C18: pushProjection on an ordered aggregate accepts an expression equal
\* to one of its group-by keys: a SELECT of group-by keys only, without
\* aggregation and HAVING, over an ordered aggregate does not fail with the
\* error 'cannot push projections in ordered aggregates'.
C18_GroupKeyAccepted ==
    (/\ heap[input].kind = "orderedAggregate"
     /\ SelectsGroupKeys(query.selectExprs, heap[input])
     /\ ~needAggrOrHaving(horizon, query)
     /\ pc = "error")
    => err # Error("INTERNAL", "cannot push projections in ordered aggregates")

\* the orders the distinct planner generates for the select-items
DistinctOrders(exprs) ==
    [i \in 1..Len(exprs) |->
        OrderBy(IF exprs[i].as = "" THEN exprs[i].expr
                ELSE AliasColName(exprs[i].as, exprs[i].expr),
                exprs[i].expr, FALSE)]

\* where the order-by planner, called on the join or hash join j of routes
\* in plan h, has put the orders: top is the plan it returned, h2 the plan
\* after the call; a route is ordered when the orders are appended to its
\* ORDER BY, unordered when its ORDER BY is as before
OrderPlacement(h, h2, j, top, orderExprs) ==
    LET isJoinGen4 == h[j].kind = "join"
        through == IF isJoinGen4 THEN h[j].left ELSE h[j].right
        other   == IF isJoinGen4 THEN h[j].right ELSE h[j].left
        special == Len(orderExprs) = 1 /\ isSpecialOrderBy(orderExprs[1])
        onThrough ==
            \A i \in 1..Len(orderExprs) :
                orderExprs[i].inner.deps \subseteq h[through].tables
        inners == [i \in 1..Len(orderExprs) |-> orderExprs[i].inner]
        Ordered(id) == h2[id].sqlOrderBy = h[id].sqlOrderBy \o inners
        Unordered(id) ==
            h2[id].sqlOrderBy = h[id].sqlOrderBy /\ h2[id].orderBy = h[id].orderBy
        NoMemorySort == NodesOfKind(h2, {"memorySort"}) = NodesOfKind(h, {"memorySort"})
    IN  /\ h2[j].left = h[j].left /\ h2[j].right = h[j].right
        /\ IF special
           THEN /\ top = j
                /\ NoMemorySort
                /\ Ordered(through)
                /\ IF isJoinGen4 THEN Ordered(other) ELSE Unordered(other)
           ELSE IF onThrough
           THEN /\ top = j
                /\ NoMemorySort
                /\ Ordered(through)
                /\ Len(h2[through].orderBy) = Len(h[through].orderBy) + Len(orderExprs)
                /\ Unordered(other)
           ELSE /\ top \notin 1..Len(h)
                /\ h2[top].kind = "memorySort"
                /\ h2[top].left = j
                /\ Len(h2[top].orderBy) = Len(orderExprs)
                /\ Unordered(through)
                /\ Unordered(other)

\* C19: for a join of two routes a single special order goes into both
\* children, an order list that depends on the left child only goes into the
\* left child, and otherwise a memory sort is put directly above the join and
\* the children stay unordered; for a hash join the right child takes the
\* place of the left and a single special order goes into the right child
\* only.  Checked for the ORDER BY of the query and for the orders the
\* distinct planner generates.
C19_OrderPlacementOnJoins ==
    /\ [][(/\ pc = "orderBy"
           /\ heap[root].kind \in {"join", "hashJoin"}
           /\ Len(horizon.qp.orderExprs) > 0
           /\ pc' = "groupBy")
          => OrderPlacement(heap, heap', root, root', horizon.qp.orderExprs)]_vars
    /\ [][(/\ pc = "distinct"
           /\ heap[root].kind = "join"
           /\ query.distinct
           /\ pc' = "truncate")
          => /\ heap'[root'].kind = "orderedAggregate"
             /\ OrderPlacement(heap, heap', root, heap'[root'].left,
                               DistinctOrders(horizon.qp.selectExprs))]_vars

\* ORDER BY NULL on a join: the order is in both routes and the join is
\* still the root
C19_Witness ==
    /\ pc = "groupBy"
    /\ heap[input].kind = "join"
    /\ root = input
    /\ query.orderBy = <<OrderBy(NullVal, NullVal, FALSE)>>
    /\ heap[heap[root].left].sqlOrderBy = <<NullVal>>
    /\ heap[heap[root].right].sqlOrderBy = <<NullVal>>

\* the orders that are not on NULL
WithoutNulls(orderExprs) ==
    LET keep == {i \in 1..Len(orderExprs) : ~IsNull(orderExprs[i].inner)}
        RECURSIVE pick(_)
        pick(i) == IF i > Len(orderExprs) THEN <<>>
                   ELSE IF i \in keep THEN <<orderExprs[i]>> \o pick(i + 1)
                   ELSE pick(i + 1)
    IN  pick(1)

\* the group-by keys and the aggregates of oa that an order matches
KeysOf(oa, o) ==
    {k \in 1..Len(oa.groupByKeys) : EqualsExpr(o.weightStrExpr, oa.groupByKeys[k].expr)}

AggregatesOf(oa, o) ==
    {a \in 1..Len(oa.aggregates) : EqualsExpr(o.weightStrExpr, oa.aggregates[a].expr)}

\* the sort column of an order above oa: the key it matches, else the aggregate
SortColumn(oa, o) ==
    IF KeysOf(oa, o) # {}
    THEN OrderByParams(oa.groupByKeys[MinOf(KeysOf(oa, o))].keyCol,
                       oa.groupByKeys[MinOf(KeysOf(oa, o))].weightStringCol, o.desc)
    ELSE OrderByParams(oa.aggregates[MinOf(AggregatesOf(oa, o))].col, -1, o.desc)

\* C20: planOrderBy on an ordered aggregate drops the orders on NULL.  If a
\* remaining order contains an aggregate, it returns a new memory sort
\* directly above the ordered aggregate with one sort column per remaining
\* order, in order, each the column of the group-by key the order matches
\* (with the key's weight column) or else of the aggregate it matches (weight
\* column -1), and changes nothing else; if an order matches neither it fails
\* with an INTERNAL error.  Otherwise it returns the ordered aggregate with
\* only its input replaced, a route input getting the orders in its ORDER
\* BY.  planOrderBy reaching a memory sort leaves the plan as it is.
C20_OrderByOnAggregate ==
    /\ [][(/\ pc = "orderBy"
           /\ heap[root].kind = "orderedAggregate"
           /\ Len(horizon.qp.orderExprs) > 0)
          => LET oa == heap[root]
                 os == WithoutNulls(horizon.qp.orderExprs)
                 onAggregate == \E i \in 1..Len(os) : ContainsAggregation(os[i].weightStrExpr)
                 found == \A i \in 1..Len(os) :
                              KeysOf(oa, os[i]) # {} \/ AggregatesOf(oa, os[i]) # {}
                 sort == [Wrap("memorySort", root) EXCEPT
                             !.orderBy = [i \in 1..Len(os) |-> SortColumn(oa, os[i])]]
             IN  IF onAggregate /\ found
                 THEN /\ pc' = "groupBy"
                      /\ root' = Len(heap) + 1
                      /\ heap' = Append(heap, sort)
                      /\ horizon' = horizon
                 ELSE IF onAggregate
                 THEN /\ pc' = "error"
                      /\ err'.code = "INTERNAL"
                      /\ horizon' = horizon
                 ELSE pc' = "groupBy"
                      => /\ root' = root
                         /\ heap'[root] = [oa EXCEPT !.left = heap'[root].left]
                         /\ heap[oa.left].kind = "route"
                            => /\ heap'[root].left = oa.left
                               /\ heap'[oa.left].sqlOrderBy
                                    = heap[oa.left].sqlOrderBy
                                        \o [i \in 1..Len(os) |-> os[i].inner]]_vars
    /\ [][(/\ pc = "groupBy"
           /\ heap[root].kind = "orderedAggregate"
           /\ heap[heap[root].left].kind = "memorySort")
          => /\ pc' = "distinct"
             /\ heap' = heap
             /\ root' = root
             /\ horizon' = horizon]_vars

\* ORDER BY b, count(b) on SELECT count(b) ... GROUP BY b: a memory sort
\* above the ordered aggregate, the first sort column from the group-by key
\* with its weight column, the second from the aggregate
C20_Witness ==
    /\ pc = "groupBy"
    /\ query.orderBy = OrderOnBAndCount
    /\ heap[root].kind = "memorySort"
    /\ heap[heap[root].left].kind = "orderedAggregate"
    /\ Len(heap[root].orderBy) = 2
    /\ heap[root].orderBy[1].weightStringCol >= 0
    /\ heap[root].orderBy[2].weightStringCol = -1
    /\ heap[root].orderBy[2].col = 0

----------------------------------------------------------------------------
(* The output columns of the pushed select list (checked under Spec).      *)

\* the select-item a plan puts out at offset i (counted from 0): a route's
\* i-th select expression, the child column a Cols entry names, and the
\* column of the input for every other node
RECURSIVE OutputItem(_, _, _)
OutputItem(h, id, i) ==
    IF id = 0 \/ i < 0 \/ i >= Width(h, id) THEN Aliased(NoExpr, "")
    ELSE IF h[id].kind = "route" THEN h[id].selectExprs[i + 1]
    ELSE IF h[id].kind \in {"join", "hashJoin", "semiJoin"}
    THEN LET c == h[id].cols[i + 1]
         IN  IF c < 0 THEN OutputItem(h, h[id].left, -c - 1)
             ELSE OutputItem(h, h[id].right, c - 1)
    ELSE IF h[id].kind = "simpleProjection"
    THEN OutputItem(h, h[id].left, h[id].cols[i + 1])
    ELSE OutputItem(h, h[id].left, i)

\* what the driver pushes for a select-item: the item itself, or the
\* argument of a distinct count or sum handled by the ordered aggregate
PushedFor(e) ==
    IF /\ horizon.vtgateGrouping
       /\ e.expr.kind = "FuncExpr" /\ e.expr.fn \in {"count", "sum"} /\ e.expr.distinct
       /\ (heap[input].kind = "route" => ~e.expr.args[1].uniq)
    THEN Aliased(e.expr.args[1], "")
    ELSE Aliased(e.expr, e.as)

\* the driver has pushed the select list onto the input plan, whose output
\* frame was empty, and no shortcut was taken
SelectListPushed ==
    /\ pc \in {"orderBy", "groupBy", "distinct", "truncate", "done"}
    /\ horizon.qp.built
    /\ heap[input].kind \in {"route", "join", "hashJoin", "semiJoin", "pulloutSubquery"}
    /\ ~(/\ heap[input].kind = "route"
         /\ query.orderBy = <<>> /\ query.groupBy = <<>> /\ query.having = <<>>
         /\ \A i \in 1..Len(query.selectExprs) :
                ~ContainsAggregation(query.selectExprs[i].expr))

\* select-item i is the output column i of the input plan
ItemsAtTheirOffsets ==
    SelectListPushed =>
        \A i \in 1..Len(query.selectExprs) :
            OutputItem(heap, input, i - 1) = PushedFor(query.selectExprs[i])

\* addDistinct has put its ordered aggregate on top
AfterAddDistinct ==
    /\ SelectListPushed
    /\ pc \in {"truncate", "done"}
    /\ Len(horizon.keyOffsets) = Len(query.selectExprs)
    /\ heap[root].kind = "orderedAggregate"

\* C21: off the shortcut paths, once the driver has pushed the n select-items
\* in order with reuseCol=false onto a route, join, hash join, semi join or
\* pullout-subquery whose output frame was empty, select-item i is output
\* column i of that plan for every i < n; the KeyCol = i that addDistinct
\* records for select-item i therefore addresses that item's column, and
\* equals the offset wrapAndPushExpr returned for the item.
C21_SelectItemOffsets ==
    /\ ItemsAtTheirOffsets
    /\ AfterAddDistinct =>
          \A i \in 1..Len(query.selectExprs) :
              /\ heap[root].groupByKeys[i].keyCol = i - 1
              /\ horizon.keyOffsets[i] = heap[root].groupByKeys[i].keyCol

====
